---- MODULE Spec2Model ----
(***************************************************************************)
(* A model of the govbid bid pipeline: the title heuristics and the        *)
(* eligibility filter (backend/app/services/filter_service.py,             *)
(* backend/app/scrapers/base.py) and the runs and the reconciler that      *)
(* persist the filtered bids (backend/app/services/scraper_service.py).    *)
(*                                                                         *)
(* Text is a sequence of characters.  An ASCII character is the one-       *)
(* character string itself; any other character is the string "uXXXX" of   *)
(* its code point (the module is ASCII, the comments give the text).       *)
(* An Optional value is <<>> (None) or <<v>>.                              *)
(***************************************************************************)
EXTENDS Integers, Sequences, FiniteSets, TLC

VARIABLES
    today,      \* date.today(), fixed along a behaviour
    store,      \* the committed rows of table bids
    pc,         \* per session: where its run stands
    run,        \* per session: the run's locals (kind, municipality, results, batch, ...)
    txn,        \* per session: the open transaction (flushed inserts, updates, deletes)
    nextId,     \* the next fresh primary key (uuid4 is modelled as a counter)
    now,        \* datetime.utcnow(), a logical clock
    high,       \* history: the greatest bid_number save_bids has ever assigned
    calls,      \* history: what each direct call of save_bids returned and left
    probe       \* the candidate handed to the filter alone, and what came of it

vars == <<today, store, pc, run, txn, nextId, now, high, calls, probe>>

(***************************************************************************)
(* Optional values and small helpers                                       *)
(***************************************************************************)
None == <<>>

Some(v) == <<v>>

IsSome(o) == o # <<>>

Val(o) == o[1]

Range(f) == {f[i] : i \in DOMAIN f}

\* max() of a set of integers, 0 for the empty set
SetMax(S) == IF S = {} THEN 0 ELSE CHOOSE x \in S : \A y \in S : y <= x

SeqsUpTo(S, n) == UNION {[1..k -> S] : k \in 0..n}

(***************************************************************************)
(* Characters                                                              *)
(***************************************************************************)
AsciiDigits == {"0", "1", "2", "3", "4", "5", "6", "7", "8", "9"}

\* the full-width digits U+FF10..U+FF19
FullDigits == {"uFF10", "uFF11", "uFF12", "uFF13", "uFF14",
               "uFF15", "uFF16", "uFF17", "uFF18", "uFF19"}

\* what \d matches in a str pattern: the decimal digits of Unicode, of which the
\* model has the ASCII and the full-width ones
Digits == AsciiDigits \cup FullDigits

\* what \s matches: ASCII whitespace and the ideographic space U+3000
Spaces == {" ", "\t", "\n", "\r", "u3000"}

DigitVal(c) ==
    CASE c \in {"0", "uFF10"} -> 0 [] c \in {"1", "uFF11"} -> 1
      [] c \in {"2", "uFF12"} -> 2 [] c \in {"3", "uFF13"} -> 3
      [] c \in {"4", "uFF14"} -> 4 [] c \in {"5", "uFF15"} -> 5
      [] c \in {"6", "uFF16"} -> 6 [] c \in {"7", "uFF17"} -> 7
      [] c \in {"8", "uFF18"} -> 8 [] c \in {"9", "uFF19"} -> 9

DigitChar(n) ==
    CASE n = 0 -> "0" [] n = 1 -> "1" [] n = 2 -> "2" [] n = 3 -> "3" [] n = 4 -> "4"
      [] n = 5 -> "5" [] n = 6 -> "6" [] n = 7 -> "7" [] n = 8 -> "8" [] n = 9 -> "9"

\* int(text) of a run of digits
RECURSIVE StrToInt(_)
StrToInt(s) == IF s = <<>> THEN 0
               ELSE 10 * StrToInt(SubSeq(s, 1, Len(s) - 1)) + DigitVal(s[Len(s)])

\* str(n), as an f-string formats an int
RECURSIVE NatToStr(_)
NatToStr(n) == IF n < 10 THEN <<DigitChar(n)>>
               ELSE NatToStr(n \div 10) \o <<DigitChar(n % 10)>>

IntToStr(n) == IF n < 0 THEN <<"-">> \o NatToStr(-n) ELSE NatToStr(n)

\* str.translate(str.maketrans('０１２３４５６７８９', '0123456789'))
HalfChar(c) == IF c \in FullDigits THEN DigitChar(DigitVal(c)) ELSE c

full_to_half(s) == [i \in 1..Len(s) |-> HalfChar(s[i])]

LowerChar(c) ==
    CASE c = "A" -> "a" [] c = "B" -> "b" [] c = "C" -> "c" [] c = "D" -> "d"
      [] c = "E" -> "e" [] c = "F" -> "f" [] c = "G" -> "g" [] c = "H" -> "h"
      [] c = "I" -> "i" [] c = "J" -> "j" [] c = "K" -> "k" [] c = "L" -> "l"
      [] c = "M" -> "m" [] c = "N" -> "n" [] c = "O" -> "o" [] c = "P" -> "p"
      [] c = "Q" -> "q" [] c = "R" -> "r" [] c = "S" -> "s" [] c = "T" -> "t"
      [] c = "U" -> "u" [] c = "V" -> "v" [] c = "W" -> "w" [] c = "X" -> "x"
      [] c = "Y" -> "y" [] c = "Z" -> "z"
      [] c = "uFF30" -> "uFF50" [] c = "uFF32" -> "uFF52"
      [] OTHER -> c

\* str.lower()
Lower(s) == [i \in 1..Len(s) |-> LowerChar(s[i])]

\* k in s, for strings
Contains(s, k) ==
    \E i \in 1..(Len(s) - Len(k) + 1) : SubSeq(s, i, i + Len(k) - 1) = k

(***************************************************************************)
(* Regular expressions, as Python's re module matches them: a backtracking *)
(* matcher that tries alternatives in order and quantifiers greedily (or   *)
(* lazily), so that the first match found is re.search's match.            *)
(* A pattern is a record: t the kind, c a character set, a the children,   *)
(* lo..hi the repetition bounds, k the capture group.                      *)
(***************************************************************************)
Inf == 1000

NGroups == 3

Node(t, c, a, lo, hi, k) == [t |-> t, c |-> c, a |-> a, lo |-> lo, hi |-> hi, k |-> k]

\* [abc]
In(c) == Node("in", c, <<>>, 0, 0, 0)

\* [^abc]
NotIn(c) == Node("notin", c, <<>>, 0, 0, 0)

\* .  (any character but a newline)
Dot == NotIn({"\n"})

\* $  (the end, or just before a final newline)
Eol == Node("eol", {}, <<>>, 0, 0, 0)

\* r1 r2 ...
Cat(a) == Node("cat", {}, a, 0, 0, 0)

\* r1 | r2 | ...
Alt(a) == Node("alt", {}, a, 0, 0, 0)

\* r{lo,hi}, greedy
Rep(r, lo, hi) == Node("rep", {}, <<r>>, lo, hi, 0)

\* r{lo,hi}?, lazy
Lazy(r, lo, hi) == Node("lazy", {}, <<r>>, lo, hi, 0)

\* (r), capture group k
Grp(k, r) == Node("grp", {}, <<r>>, 0, 0, k)

Opt(r) == Rep(r, 0, 1)

Star(r) == Rep(r, 0, Inf)

Plus(r) == Rep(r, 1, Inf)

\* a literal string
Lit(s) == Cat([i \in 1..Len(s) |-> In({s[i]})])

\* one of several literal strings, in order
Words(ws) == Alt([i \in 1..Len(ws) |-> Lit(ws[i])])

\* \d{lo,hi}
D(lo, hi) == Rep(In(Digits), lo, hi)

\* a match state: p the next position, g the groups' <<start, end>> (or <<>>)
MState(p) == [p |-> p, g |-> [i \in 1..NGroups |-> <<>>]]

RECURSIVE MatchNode(_, _, _)
RECURSIVE MatchCat(_, _, _, _)
RECURSIVE MatchAlt(_, _, _, _)
RECURSIVE MatchRep(_, _, _, _)
RECURSIVE MatchEach(_, _, _, _, _)

\* every way r matches s from state st, best first
MatchNode(r, s, st) ==
    CASE r.t = "in" ->
           IF st.p <= Len(s) /\ s[st.p] \in r.c
           THEN <<[st EXCEPT !.p = @ + 1]>> ELSE <<>>
      [] r.t = "notin" ->
           IF st.p <= Len(s) /\ s[st.p] \notin r.c
           THEN <<[st EXCEPT !.p = @ + 1]>> ELSE <<>>
      [] r.t = "eol" ->
           IF st.p = Len(s) + 1 \/ (st.p = Len(s) /\ s[st.p] = "\n")
           THEN <<st>> ELSE <<>>
      [] r.t = "cat" -> MatchCat(r.a, 1, s, <<st>>)
      [] r.t = "alt" -> MatchAlt(r.a, 1, s, st)
      [] r.t \in {"rep", "lazy"} ->
           \* a repeated character class takes a run of characters: its ends
           \* are computed at once, longest first (or shortest first if lazy)
           LET Takes(c) == IF r.a[1].t = "in" THEN c \in r.a[1].c ELSE c \notin r.a[1].c
               Run(rest) == CHOOSE k \in 0..rest :
                                /\ \A j \in 0..(k - 1) : Takes(s[st.p + j])
                                /\ k = rest \/ ~Takes(s[st.p + k])
               Ends(top) == IF top < r.lo THEN <<>>
                            ELSE [i \in 1..(top - r.lo + 1) |->
                                    [st EXCEPT !.p = @ + (IF r.t = "rep" THEN top - i + 1
                                                          ELSE r.lo + i - 1)]]
               Most(len) == IF len < r.hi THEN len ELSE r.hi
           IN  IF r.a[1].t \in {"in", "notin"}
               THEN Ends(Most(Run(Len(s) - st.p + 1)))
               ELSE MatchRep(r, s, st, 0)
      [] r.t = "grp" ->
           LET Captured(in) == [i \in 1..Len(in) |->
                                  [in[i] EXCEPT !.g[r.k] = <<st.p, in[i].p>>]]
           IN  Captured(MatchNode(r.a[1], s, st))

\* the children a[i..] in sequence, from each of the states sts
MatchCat(a, i, s, sts) ==
    IF i > Len(a) \/ sts = <<>> THEN sts
    ELSE MatchCat(a, i + 1, s, MatchEach(a[i], s, sts, 1, -1))

\* the alternatives a[i..], in order
MatchAlt(a, i, s, st) ==
    IF i > Len(a) THEN <<>>
    ELSE MatchNode(a[i], s, st) \o MatchAlt(a, i + 1, s, st)

\* r.a[1] repeated, n repetitions done so far
MatchRep(r, s, st, n) ==
    LET Ordered(stop, step) == IF r.t = "rep" THEN step \o stop ELSE stop \o step
    IN  Ordered(IF n >= r.lo THEN <<st>> ELSE <<>>,
                IF n >= r.hi THEN <<>>
                ELSE MatchEach(r, s, SelectSeq(MatchNode(r.a[1], s, st),
                                               LAMBDA x : x.p > st.p), 1, n + 1))

\* r from each of the states sts[i..], concatenated; n >= 0 continues a repetition
MatchEach(r, s, sts, i, n) ==
    IF i > Len(sts) THEN <<>>
    ELSE (IF n < 0 THEN MatchNode(r, s, sts[i]) ELSE MatchRep(r, s, sts[i], n))
         \o MatchEach(r, s, sts, i + 1, n)

NoMatch == [ok |-> FALSE, s |-> 0, e |-> 0, g |-> [i \in 1..NGroups |-> <<>>]]

MatchAt(r, s, i) ==
    LET First(ms) == IF ms = <<>> THEN NoMatch
                     ELSE [ok |-> TRUE, s |-> i, e |-> ms[1].p, g |-> ms[1].g]
    IN  First(MatchNode(r, s, MState(i)))

\* re.search(r, s): the match at the leftmost position that has one
Search(r, s) ==
    LET Leftmost(hits) == IF hits = {} THEN NoMatch
                          ELSE MatchAt(r, s, CHOOSE i \in hits : \A j \in hits : i <= j)
    IN  Leftmost({i \in 1..(Len(s) + 1) : MatchNode(r, s, MState(i)) # <<>>})

\* re.match(r, s): a match at the start
Match(r, s) == MatchAt(r, s, 1)

\* match.group(k), for a group that took part in the match
Group(s, m, k) == SubSeq(s, m.g[k][1], m.g[k][2] - 1)

\* match.group(0)
Group0(s, m) == SubSeq(s, m.s, m.e - 1)

(***************************************************************************)
(* Calendar dates: datetime.date(y, m, d) is the record [y, m, d]          *)
(***************************************************************************)
MINYEAR == 1

MAXYEAR == 9999

IsLeap(y) == (y % 4 = 0 /\ y % 100 # 0) \/ y % 400 = 0

DaysInMonth(y, m) ==
    CASE m \in {1, 3, 5, 7, 8, 10, 12} -> 31
      [] m \in {4, 6, 9, 11} -> 30
      [] m = 2 -> IF IsLeap(y) THEN 29 ELSE 28

\* whether date(y, m, d) is a date (it raises ValueError otherwise)
ValidDate(y, m, d) ==
    /\ y >= MINYEAR /\ y <= MAXYEAR
    /\ m >= 1 /\ m <= 12
    /\ d >= 1 /\ d <= DaysInMonth(y, m)

Date(y, m, d) == [y |-> y, m |-> m, d |-> d]

\* date(y, m, d) under try/except ValueError: the date, or None
MkDate(y, m, d) == IF ValidDate(y, m, d) THEN Some(Date(y, m, d)) ELSE None

\* an exception of type e leaving the function, in the place of its result
Raised(e) == <<e, "raised">>

IsRaised(x) == Len(x) = 2

\* date(int(ys) + add, int(ms), int(ds)) under try/except ValueError: the
\* date, None for a ValueError, or the OverflowError that leaves the function
\* when an argument is more than a C int holds (2147483647)
DateOf(ys, add, ms, ds) ==
    LET RECURSIVE Significant(_)
        Significant(t) ==
            IF t # <<>> /\ DigitVal(Head(t)) = 0 THEN Significant(Tail(t)) ELSE t
        Big(sig, more) ==
            \/ Len(sig) > 10
            \/ /\ Len(sig) = 10
               /\ \/ StrToInt(SubSeq(sig, 1, 5)) > 21474
                  \/ /\ StrToInt(SubSeq(sig, 1, 5)) = 21474
                     /\ StrToInt(SubSeq(sig, 6, 10)) > 83647 - more
        TooBig(t, more) == Big(Significant(t), more)
    IN  IF TooBig(ys, add) \/ TooBig(ms, 0) \/ TooBig(ds, 0)
        THEN Raised("OverflowError")
        ELSE MkDate(StrToInt(ys) + add, StrToInt(ms), StrToInt(ds))

RECURSIVE DaysBeforeMonth(_, _)
DaysBeforeMonth(y, m) ==
    IF m <= 1 THEN 0 ELSE DaysBeforeMonth(y, m - 1) + DaysInMonth(y, m - 1)

\* date.toordinal(): the order of dates and the distance between them
Ordinal(dt) ==
    LET y1 == dt.y - 1
    IN  365 * y1 + (y1 \div 4) - (y1 \div 100) + (y1 \div 400)
        + DaysBeforeMonth(dt.y, dt.m) + dt.d

DateLt(a, b) == Ordinal(a) < Ordinal(b)

DateGe(a, b) == Ordinal(a) >= Ordinal(b)

(***************************************************************************)
(* filter_service.py: categories                                           *)
(***************************************************************************)
\* the categories, named in ASCII: 広報, プロモーション, イベント
CatKoho == "koho"

CatPromotion == "promotion"

CatEvent == "event"

\* KEYWORDS, in the dict's (insertion) order
KEYWORDS == <<
    [category |-> CatKoho, keywords |->
        <<<<"u5E83", "u5831">>,
        <<"P", "R">>,
        <<"u30E1", "u30C7", "u30A3", "u30A2">>,
        <<"u5831", "u9053">>,
        <<"u60C5", "u5831", "u767A", "u4FE1">>,
        <<"u5468", "u77E5">>,
        <<"u5E83", "u544A">>,
        <<"u30D1", "u30D6", "u30EA", "u30B7", "u30C6", "u30A3">>,
        <<"u30D7", "u30EC", "u30B9", "u30EA", "u30EA", "u30FC", "u30B9">>,
        <<"u30CB", "u30E5", "u30FC", "u30B9", "u30EC", "u30BF", "u30FC">>,
        <<"u60C5", "u5831", "u8A8C">>>>],
    [category |-> CatPromotion, keywords |->
        <<<<"u30D7", "u30ED", "u30E2", "u30FC", "u30B7", "u30E7", "u30F3">>,
        <<"p", "r", "o", "m", "o", "t", "i", "o", "n">>,
        <<"u5BA3", "u4F1D">>,
        <<"u8CA9", "u4FC3">>,
        <<"u30D6", "u30E9", "u30F3", "u30C7", "u30A3", "u30F3", "u30B0">>,
        <<"u89B3", "u5149", "P", "R">>,
        <<"u30B7", "u30C6", "u30A3", "u30D7", "u30ED", "u30E2", "u30FC", "u30B7", "u30E7", "u30F3">>,
        <<"u79FB", "u4F4F", "u4FC3", "u9032">>,
        <<"u9B45", "u529B", "u767A", "u4FE1">>,
        <<"u30AD", "u30E3", "u30F3", "u30DA", "u30FC", "u30F3">>,
        <<"S", "N", "S">>,
        <<"u30A6", "u30A7", "u30D6", "u30B5", "u30A4", "u30C8">>,
        <<"u30DB", "u30FC", "u30E0", "u30DA", "u30FC", "u30B8">>>>],
    [category |-> CatEvent, keywords |->
        <<<<"u30A4", "u30D9", "u30F3", "u30C8">>,
        <<"u4F01", "u753B", "u904B", "u55B6">>,
        <<"u50AC", "u4E8B">>,
        <<"u30D5", "u30A7", "u30A2">>,
        <<"u30D5", "u30A7", "u30B9", "u30C6", "u30A3", "u30D0", "u30EB">>,
        <<"u796D", "u308A">>,
        <<"u5C55", "u793A", "u4F1A">>,
        <<"u30BB", "u30DF", "u30CA", "u30FC">>,
        <<"u30B7", "u30F3", "u30DD", "u30B8", "u30A6", "u30E0">>,
        <<"u30D5", "u30A9", "u30FC", "u30E9", "u30E0">>,
        <<"u5F0F", "u5178">>,
        <<"u8A18", "u5FF5", "u4E8B", "u696D">>,
        <<"u5553", "u767A">>,
        <<"u4F53", "u9A13">>>>] >>

\* any(k.lower() in title_lower for k in keywords)
AnyKeyword(keywords, title_lower) ==
    \E i \in 1..Len(keywords) : Contains(title_lower, Lower(keywords[i]))

\* a categorize_bid that compares the title as it is written
categorize_bid_cased(title) ==
    LET hits == {i \in 1..Len(KEYWORDS) :
                    \E k \in 1..Len(KEYWORDS[i].keywords) :
                        Contains(title, KEYWORDS[i].keywords[k])}
    IN  IF hits = {} THEN None
        ELSE Some(KEYWORDS[CHOOSE i \in hits : \A j \in hits : i <= j].category)

\* categorize_bid: the first category with a keyword in the title, or None
categorize_bid(title) ==
    LET title_lower == Lower(title)
        hits == {i \in 1..Len(KEYWORDS) : AnyKeyword(KEYWORDS[i].keywords, title_lower)}
    IN  IF hits = {} THEN None
        ELSE Some(KEYWORDS[CHOOSE i \in hits : \A j \in hits : i <= j].category)

(***************************************************************************)
(* filter_service.py: dates in the title                                   *)
(***************************************************************************)
\* 月, 日, 年 and 令和
Tsuki == In({"u6708"})

Nichi == In({"u65E5"})

Nen == In({"u5E74"})

Reiwa == Lit(<<"u4EE4", "u548C">>)

\* [【\[（(](\d{1,2})月(\d{1,2})日[^】\]）)]*(締切|提出期限|期限)[】\]）)]
DeadlineRe1 ==
    Cat(<<In({"u3010", "[", "uFF08", "("}), Grp(1, D(1, 2)), Tsuki, Grp(2, D(1, 2)), Nichi,
          Star(NotIn({"u3011", "]", "uFF09", ")"})),
          Grp(3, Words(<<<<"u7DE0", "u5207">>,
        <<"u63D0", "u51FA", "u671F", "u9650">>,
        <<"u671F", "u9650">>>>)), In({"u3011", "]", "uFF09", ")"})>>)

\* (?:締切[日]?|提出期限|応募期限|申込期限|受付期限)[：:\s]+(\d{1,2})月(\d{1,2})日
DeadlineRe2 ==
    Cat(<<Alt(<<Cat(<<Lit(<<"u7DE0", "u5207">>), Opt(In({"u65E5"}))>>),
                Lit(<<"u63D0", "u51FA", "u671F", "u9650">>), Lit(<<"u5FDC", "u52DF", "u671F", "u9650">>), Lit(<<"u7533", "u8FBC", "u671F", "u9650">>), Lit(<<"u53D7", "u4ED8", "u671F", "u9650">>)>>),
          Plus(In({"uFF1A", ":"} \cup Spaces)),
          Grp(1, D(1, 2)), Tsuki, Grp(2, D(1, 2)), Nichi>>)

\* (?:締切|提出期限|応募期限|申込期限|受付期限)[：:\s]*令和(\d+)年(\d{1,2})月(\d{1,2})日
DeadlineRe3 ==
    Cat(<<Words(<<<<"u7DE0", "u5207">>,
        <<"u63D0", "u51FA", "u671F", "u9650">>,
        <<"u5FDC", "u52DF", "u671F", "u9650">>,
        <<"u7533", "u8FBC", "u671F", "u9650">>,
        <<"u53D7", "u4ED8", "u671F", "u9650">>>>),
          Star(In({"uFF1A", ":"} \cup Spaces)), Reiwa,
          Grp(1, D(1, Inf)), Nen, Grp(2, D(1, 2)), Tsuki, Grp(3, D(1, 2)), Nichi>>)

\* 令和(\d+)年(\d{1,2})月(\d{1,2})日(?:まで|締切|期限)?
DeadlineRe4 ==
    Cat(<<Reiwa, Grp(1, D(1, Inf)), Nen, Grp(2, D(1, 2)), Tsuki, Grp(3, D(1, 2)), Nichi,
          Opt(Words(<<<<"u307E", "u3067">>,
        <<"u7DE0", "u5207">>,
        <<"u671F", "u9650">>>>))>>)

\* (?:～|〜|まで\s*)?(\d{1,2})月(\d{1,2})日(?:まで|迄)
DeadlineRe5 ==
    Cat(<<Opt(Alt(<<Lit(<<"uFF5E">>), Lit(<<"u301C">>), Cat(<<Lit(<<"u307E", "u3067">>), Star(In(Spaces))>>)>>)),
          Grp(1, D(1, 2)), Tsuki, Grp(2, D(1, 2)), Nichi, Words(<<<<"u307E", "u3067">>,
        <<"u8FC4">>>>)>>)

\* the try block of a year-less deadline: date(year, month, day), rolled to the
\* next year when it is before today; None when either date() raises ValueError
RollForward(tdy, month, day) ==
    LET deadline == MkDate(tdy.y, month, day)
    IN  IF deadline = None THEN None
        ELSE IF DateLt(Val(deadline), tdy) THEN MkDate(tdy.y + 1, month, day)
        ELSE deadline

\* the try block of a 令和 deadline: date(int(g1) + 2018, month, day); the
\* OverflowError of a year beyond a C int is not caught
ReiwaDate(s, m) == DateOf(Group(s, m, 1), 2018, Group(s, m, 2), Group(s, m, 3))

\* the year-less patterns' result: None when the pattern does not match or date() raises
YearlessDeadline(re, title, tdy) ==
    LET Try(m) == IF m.ok
                  THEN RollForward(tdy, StrToInt(Group(title, m, 1)),
                                   StrToInt(Group(title, m, 2)))
                  ELSE None
    IN  Try(Search(re, title))

ReiwaDeadline(re, title) ==
    LET Try(m) == IF m.ok THEN ReiwaDate(title, m) ELSE None
    IN  Try(Search(re, title))

\* the first of a sequence of Optional results that is not None
FirstSome(rs) ==
    LET hits == {i \in 1..Len(rs) : rs[i] # None}
    IN  IF hits = {} THEN None ELSE rs[CHOOSE i \in hits : \A j \in hits : i <= j]

\* extract_deadline_from_title: the five patterns in order, each returning its
\* date or falling through to the next; a Raised result is the exception
\* leaving the function
extract_deadline_from_title(title, tdy) ==
    FirstSome(<<YearlessDeadline(DeadlineRe1, title, tdy),
                YearlessDeadline(DeadlineRe2, title, tdy),
                ReiwaDeadline(DeadlineRe3, title),
                ReiwaDeadline(DeadlineRe4, title),
                YearlessDeadline(DeadlineRe5, title, tdy)>>)

\* 令和(\d+)年(\d{1,2})月(\d{1,2})日
StartRe1 ==
    Cat(<<Reiwa, Grp(1, D(1, Inf)), Nen, Grp(2, D(1, 2)), Tsuki, Grp(3, D(1, 2)), Nichi>>)

\* (\d{1,2})月(\d{1,2})日(?:掲載|公開|公告)
StartRe2 ==
    Cat(<<Grp(1, D(1, 2)), Tsuki, Grp(2, D(1, 2)), Nichi, Words(<<<<"u63B2", "u8F09">>,
        <<"u516C", "u958B">>,
        <<"u516C", "u544A">>>>)>>)

\* the try block of a year-less start date: this year's, or last year's when
\* this year's is after today
RollBack(tdy, month, day) ==
    LET start_date == MkDate(tdy.y, month, day)
    IN  IF start_date = None THEN None
        ELSE IF DateLt(tdy, Val(start_date)) THEN MkDate(tdy.y - 1, month, day)
        ELSE start_date

\* extract_start_date_from_title
extract_start_date_from_title(title, tdy) ==
    LET Try1(m) == IF m.ok THEN ReiwaDate(title, m) ELSE None
        Try2(m) == IF m.ok
                   THEN RollBack(tdy, StrToInt(Group(title, m, 1)),
                                 StrToInt(Group(title, m, 2)))
                   ELSE None
    IN  FirstSome(<<Try1(Search(StartRe1, title)), Try2(Search(StartRe2, title))>>)

(***************************************************************************)
(* filter_service.py: the checks of the filter                             *)
(***************************************************************************)
\* is_bid_active that lets a bid without any deadline through
is_bid_active_lenient(bid, tdy) ==
    IF IsSome(bid.application_end)
    THEN <<DateGe(Val(bid.application_end), tdy), bid>>
    ELSE LET Found(deadline) ==
                 IF IsSome(deadline)
                 THEN <<DateGe(Val(deadline), tdy), [bid EXCEPT !.application_end = deadline]>>
                 ELSE <<TRUE, bid>>
         IN  Found(extract_deadline_from_title(bid.title, tdy))

\* is_bid_active: <<active, the bid as the call leaves it>>
is_bid_active(bid, tdy) ==
    IF IsSome(bid.application_end)
    THEN <<DateGe(Val(bid.application_end), tdy), bid>>
    ELSE LET Found(deadline) ==
                 IF IsSome(deadline)
                 THEN <<DateGe(Val(deadline), tdy), [bid EXCEPT !.application_end = deadline]>>
                 ELSE <<FALSE, bid>>
         IN  Found(extract_deadline_from_title(bid.title, tdy))

\* is_recently_announced with the cutoff day itself left out
is_recently_announced_strict(bid, days, tdy) ==
    LET cutoff == Ordinal(tdy) - days
    IN  IF IsSome(bid.application_start)
        THEN <<Ordinal(Val(bid.application_start)) > cutoff, bid>>
        ELSE LET Found(start_date) ==
                     IF IsSome(start_date)
                     THEN <<Ordinal(Val(start_date)) > cutoff,
                            [bid EXCEPT !.application_start = start_date]>>
                     ELSE <<TRUE, [bid EXCEPT !.application_start = Some(tdy)]>>
             IN  Found(extract_start_date_from_title(bid.title, tdy))

\* is_recently_announced: <<recent, the bid as the call leaves it>>
is_recently_announced(bid, days, tdy) ==
    LET cutoff == Ordinal(tdy) - days
    IN  IF IsSome(bid.application_start)
        THEN <<Ordinal(Val(bid.application_start)) >= cutoff, bid>>
        ELSE LET Found(start_date) ==
                     IF IsSome(start_date)
                     THEN <<Ordinal(Val(start_date)) >= cutoff,
                            [bid EXCEPT !.application_start = start_date]>>
                     ELSE <<TRUE, [bid EXCEPT !.application_start = Some(tdy)]>>
             IN  Found(extract_start_date_from_title(bid.title, tdy))

\* exclusion_patterns of is_qa_or_supplementary
QaPatterns ==
    <<<<"u306B", "u95A2", "u3059", "u308B", "u8CEA", "u554F", "u3068", "u56DE", "u7B54">>,
        <<"u306B", "u4FC2", "u308B", "u8CEA", "u554F", "u3068", "u56DE", "u7B54">>,
        <<"u8CEA", "u554F", "u3078", "u306E", "u56DE", "u7B54", "u306B", "u3064", "u3044", "u3066">>,
        <<"u8CEA", "u554F", "u66F8", "u306B", "u5BFE", "u3059", "u308B", "u56DE", "u7B54", "u306B", "u3064", "u3044", "u3066">>,
        <<"u8CEA", "u554F", "u306B", "u5BFE", "u3059", "u308B", "u56DE", "u7B54", "u306B", "u3064", "u3044", "u3066">>,
        <<"u306B", "u4FC2", "u308B", "u8CEA", "u554F", "u3078", "u306E", "u56DE", "u7B54">>,
        <<"uFF31", "uFF06", "uFF21", "u306B", "u3064", "u3044", "u3066">>,
        <<"Q", "&", "A", "u306B", "u3064", "u3044", "u3066">>,
        <<"u5BE9", "u67FB", "u7D50", "u679C", "u306B", "u3064", "u3044", "u3066">>,
        <<"u9078", "u5B9A", "u7D50", "u679C", "u306B", "u3064", "u3044", "u3066">>,
        <<"u5951", "u7D04", "u7DE0", "u7D50", "u306B", "u3064", "u3044", "u3066">>,
        <<"u843D", "u672D", "u8005", "u6C7A", "u5B9A">>,
        <<"u843D", "u672D", "u306B", "u3064", "u3044", "u3066">>,
        <<"u6C7A", "u5B9A", "u3057", "u307E", "u3057", "u305F">>>>

is_qa_or_supplementary(title) ==
    \E i \in 1..Len(QaPatterns) : Contains(title, QaPatterns[i])

\* the fiscal year of a day: the calendar year from April on, the year before until March
CurrentFiscalYear(tdy) == IF tdy.m < 4 THEN tdy.y - 1 ELSE tdy.y

\* f"令和{n}年度"
ReiwaNendo(n) == <<"u4EE4", "u548C">> \o IntToStr(n) \o <<"u5E74", "u5EA6">>

\* past_years of is_past_fiscal_year
PastYears(tdy) ==
    LET current_reiwa == CurrentFiscalYear(tdy) - 2018
    IN  <<ReiwaNendo(current_reiwa - 1), ReiwaNendo(current_reiwa - 2),
          ReiwaNendo(current_reiwa - 3),
          <<"u4EE4", "u548C", "uFF16", "u5E74", "u5EA6">>, <<"u4EE4", "u548C", "uFF15", "u5E74", "u5EA6">>, <<"u4EE4", "u548C", "uFF14", "u5E74", "u5EA6">>>>

is_past_fiscal_year(title, tdy) ==
    \E i \in 1..Len(PastYears(tdy)) : Contains(title, PastYears(tdy)[i])

StatusOpen == "open"

StatusClosed == "closed"

\* one pass of filter_bids's loop: <<kept, the bid as the pass leaves it>>
FilterOne(bid, tdy) ==
    IF is_qa_or_supplementary(bid.title) THEN <<FALSE, bid>>
    ELSE IF is_past_fiscal_year(bid.title, tdy) THEN <<FALSE, bid>>
    ELSE LET Recent(rec) == IF ~rec[1] THEN <<FALSE, rec[2]>>
                            ELSE <<TRUE, [rec[2] EXCEPT !.status = StatusOpen]>>
             Active(act) == IF ~act[1] THEN <<FALSE, [act[2] EXCEPT !.status = StatusClosed]>>
                            ELSE Recent(is_recently_announced(act[2], 30, tdy))
             Categorized(category) ==
                 IF category = None THEN <<FALSE, bid>>
                 ELSE Active(is_bid_active([bid EXCEPT !.category = category], tdy))
         IN  Categorized(categorize_bid(bid.title))

\* filter_bids: the kept bids, in the order of the input
RECURSIVE filter_bids(_, _)
filter_bids(bids, tdy) ==
    IF bids = <<>> THEN <<>>
    ELSE LET Kept(one) == IF one[1] THEN <<one[2]>> ELSE <<>>
         IN  Kept(FilterOne(Head(bids), tdy)) \o filter_bids(Tail(bids), tdy)

(***************************************************************************)
(* scrapers/base.py: the title checks of enrichment                        *)
(***************************************************************************)
\* 令和\s*(\d+)\s*年度
FiscalRe1 ==
    Cat(<<Reiwa, Star(In(Spaces)), Grp(1, D(1, Inf)), Star(In(Spaces)), Lit(<<"u5E74", "u5EA6">>)>>)

\* (20\d{2})\s*年度
FiscalRe2 ==
    Cat(<<Grp(1, Cat(<<Lit(<<"2", "0">>), D(2, 2)>>)), Star(In(Spaces)), Lit(<<"u5E74", "u5EA6">>)>>)

\* [Rr]\s*(\d+)\s*(?:年度)?
FiscalRe3 ==
    Cat(<<In({"R", "r"}), Star(In(Spaces)), Grp(1, D(1, Inf)), Star(In(Spaces)),
          Opt(Lit(<<"u5E74", "u5EA6">>))>>)

\* BaseScraper._extract_fiscal_year_from_title
_extract_fiscal_year_from_title(title0) ==
    LET Years(title) ==
            LET Year(m, base) == IF m.ok THEN Some(StrToInt(Group(title, m, 1)) + base)
                                 ELSE None
            IN  FirstSome(<<Year(Search(FiscalRe1, title), 2018),
                            Year(Search(FiscalRe2, title), 0),
                            Year(Search(FiscalRe3, title), 2018)>>)
    IN  Years(full_to_half(title0))

\* BaseScraper._is_old_fiscal_year
_is_old_fiscal_year(title, tdy) ==
    LET current_fiscal_year == IF tdy.m >= 4 THEN tdy.y ELSE tdy.y - 1
        Old(fiscal_year) == IF fiscal_year = None \/ Val(fiscal_year) = 0 THEN FALSE
                            ELSE Val(fiscal_year) < current_fiscal_year
    IN  Old(_extract_fiscal_year_from_title(title))

\* exclude_keywords of BaseScraper._should_exclude_by_title
exclude_keywords ==
    <<<<"u5199", "u771F", "u306E", "u52DF", "u96C6">>,
        <<"u5199", "u771F", "u52DF", "u96C6">>,
        <<"u30D5", "u30A9", "u30C8", "u30B3", "u30F3", "u30C6", "u30B9", "u30C8">>,
        <<"u8077", "u5834", "u4F53", "u9A13", "u306E", "u52DF", "u96C6">>,
        <<"u8077", "u5834", "u4F53", "u9A13", "u306E", "u5B9F", "u65BD", "u53CA", "u3073", "u53D7", "u5165", "u4E8B", "u696D", "u6240", "u306E", "u52DF", "u96C6">>,
        <<"u30B8", "u30E7", "u30D6", "u30B7", "u30E3", "u30C9", "u30A6", "u30A4", "u30F3", "u30B0">>,
        <<"u30A4", "u30F3", "u30BF", "u30FC", "u30F3", "u30B7", "u30C3", "u30D7", "u53D7", "u5165">>,
        <<"u53D7", "u5165", "u4E8B", "u696D", "u6240", "u306E", "u52DF", "u96C6">>,
        <<"u5E83", "u544A", "u52DF", "u96C6">>,
        <<"u5E83", "u544A", "u306E", "u52DF", "u96C6">>,
        <<"u5E83", "u544A", "u63B2", "u8F09", "u306E", "u52DF", "u96C6">>,
        <<"u5E83", "u544A", "u67A0", "u306E", "u52DF", "u96C6">>,
        <<"u8CEA", "u554F", "u304A", "u3088", "u3073", "u56DE", "u7B54">>,
        <<"u8CEA", "u554F", "u53CA", "u3073", "u56DE", "u7B54">>,
        <<"u8CEA", "u554F", "u30FB", "u56DE", "u7B54">>,
        <<"u8CEA", "u554F", "u3068", "u56DE", "u7B54">>,
        <<"Q", "&", "A">>,
        <<"uFF31", "uFF06", "uFF21">>,
        <<"u30DC", "u30E9", "u30F3", "u30C6", "u30A3", "u30A2", "u52DF", "u96C6">>,
        <<"u53C2", "u52A0", "u8005", "u52DF", "u96C6">>,
        <<"u51FA", "u5E97", "u8005", "u52DF", "u96C6">>,
        <<"u51FA", "u5C55", "u8005", "u52DF", "u96C6">>>>

\* BaseScraper._should_exclude_by_title
_should_exclude_by_title(title) ==
    \E i \in 1..Len(exclude_keywords) : Contains(title, exclude_keywords[i])

\* EXCLUDE_KEYWORDS of scraper_service.py (the same list, written out again there)
EXCLUDE_KEYWORDS ==
    <<<<"u5199", "u771F", "u306E", "u52DF", "u96C6">>,
        <<"u5199", "u771F", "u52DF", "u96C6">>,
        <<"u30D5", "u30A9", "u30C8", "u30B3", "u30F3", "u30C6", "u30B9", "u30C8">>,
        <<"u8077", "u5834", "u4F53", "u9A13", "u306E", "u52DF", "u96C6">>,
        <<"u8077", "u5834", "u4F53", "u9A13", "u306E", "u5B9F", "u65BD", "u53CA", "u3073", "u53D7", "u5165", "u4E8B", "u696D", "u6240", "u306E", "u52DF", "u96C6">>,
        <<"u30B8", "u30E7", "u30D6", "u30B7", "u30E3", "u30C9", "u30A6", "u30A4", "u30F3", "u30B0">>,
        <<"u30A4", "u30F3", "u30BF", "u30FC", "u30F3", "u30B7", "u30C3", "u30D7", "u53D7", "u5165">>,
        <<"u53D7", "u5165", "u4E8B", "u696D", "u6240", "u306E", "u52DF", "u96C6">>,
        <<"u5E83", "u544A", "u52DF", "u96C6">>,
        <<"u5E83", "u544A", "u306E", "u52DF", "u96C6">>,
        <<"u5E83", "u544A", "u63B2", "u8F09", "u306E", "u52DF", "u96C6">>,
        <<"u5E83", "u544A", "u67A0", "u306E", "u52DF", "u96C6">>,
        <<"u8CEA", "u554F", "u304A", "u3088", "u3073", "u56DE", "u7B54">>,
        <<"u8CEA", "u554F", "u53CA", "u3073", "u56DE", "u7B54">>,
        <<"u8CEA", "u554F", "u30FB", "u56DE", "u7B54">>,
        <<"u8CEA", "u554F", "u3068", "u56DE", "u7B54">>,
        <<"Q", "&", "A">>,
        <<"uFF31", "uFF06", "uFF21">>,
        <<"u30DC", "u30E9", "u30F3", "u30C6", "u30A3", "u30A2", "u52DF", "u96C6">>,
        <<"u53C2", "u52A0", "u8005", "u52DF", "u96C6">>,
        <<"u51FA", "u5E97", "u8005", "u52DF", "u96C6">>,
        <<"u51FA", "u5C55", "u8005", "u52DF", "u96C6">>>>

(***************************************************************************)
(* scrapers/base.py BidInfo, models.py Bid, and the inputs of the model    *)
(***************************************************************************)
\* BidInfo(...)
BidInfo(title, municipality, announcement_url, category, max_amount, application_start, application_end) ==
    [title |-> title, municipality |-> municipality,
     announcement_url |-> announcement_url, source_url |-> "list",
     category |-> category, max_amount |-> max_amount,
     period_start |-> None, period_end |-> None,
     application_start |-> application_start, application_end |-> application_end,
     status |-> StatusOpen]

\* SCRAPERS, by municipality_name: the first two of the registry, 福岡県 and 福岡市
SCRAPERS == <<"Fukuoka-ken", "Fukuoka-shi">>

MunicipalityNames == Range(SCRAPERS)

\* a name get_municipality_names() does not list
UnknownName == "Atlantis"

\* the sessions: scheduled_scrape_job's and the one of a POST /scrape
Sessions == {"scheduled", "manual"}

\* the most candidates the scrapers of one run return together
MaxBids == 2

\* no run starts once the clock has reached this
MaxClock == 3

\* the days a run may happen on
RunDays == {Date(2025, 1, 10)}

\* titles of the listing pages: 広報誌制作業務, イベント出店者募集, SNS運用業務【2月15日締切】, 道路補修工事
TitleKoho == <<"u5E83", "u5831", "u8A8C", "u5236", "u4F5C", "u696D", "u52D9">>

TitleStall == <<"u30A4", "u30D9", "u30F3", "u30C8", "u51FA", "u5E97", "u8005", "u52DF", "u96C6">>

TitleSns == <<"S", "N", "S", "u904B", "u7528", "u696D", "u52D9", "u3010", "2", "u6708", "1", "5", "u65E5", "u7DE0", "u5207", "u3011">>

TitleRoad == <<"u9053", "u8DEF", "u88DC", "u4FEE", "u5DE5", "u4E8B">>

\* what the scraper of municipality m may find on its listing page
Pool(m) ==
    IF m = SCRAPERS[1]
    THEN { BidInfo(TitleKoho, m, "url1", None, Some(500000), None, Some(Date(2025, 1, 31))),
           BidInfo(TitleKoho, m, "url2", None, None, Some(Date(2025, 1, 6)),
                   Some(Date(2025, 2, 28))),
           BidInfo(TitleStall, m, "url4", None, None, None, Some(Date(2025, 1, 20))) }
    ELSE { BidInfo(TitleKoho, m, "url3", None, None, None, Some(Date(2025, 1, 9))),
           BidInfo(TitleSns, m, "url5", Some("adapter"), None, None, None),
           BidInfo(TitleRoad, m, "url6", None, None, None, Some(Date(2025, 1, 20))) }

\* the row Bid(...) of a BidInfo, with the column defaults of the INSERT
NewBid(bid_info, id, bid_number, t) ==
    [id |-> id, title |-> bid_info.title, municipality |-> bid_info.municipality,
     category |-> bid_info.category, max_amount |-> bid_info.max_amount,
     announcement_url |-> bid_info.announcement_url,
     period_start |-> bid_info.period_start, period_end |-> bid_info.period_end,
     application_start |-> bid_info.application_start,
     application_end |-> bid_info.application_end,
     status |-> bid_info.status, source_url |-> bid_info.source_url,
     bid_number |-> bid_number,
     scraped_at |-> t, created_at |-> t, updated_at |-> t]

\* an update that keeps the stored amount when the candidate has none
UpdateBidKeepingAmount(existing, bid_info, t) ==
    [existing EXCEPT
        !.announcement_url = bid_info.announcement_url,
        !.category = bid_info.category,
        !.max_amount = IF bid_info.max_amount = None THEN @ ELSE bid_info.max_amount,
        !.period_start = bid_info.period_start,
        !.period_end = bid_info.period_end,
        !.application_start = bid_info.application_start,
        !.application_end = bid_info.application_end,
        !.status = bid_info.status,
        !.scraped_at = t,
        !.updated_at = t]

\* the assignments of save_bids to an existing row
UpdateBid(existing, bid_info, t) ==
    [existing EXCEPT
        !.announcement_url = bid_info.announcement_url,
        !.category = bid_info.category,
        !.max_amount = bid_info.max_amount,
        !.period_start = bid_info.period_start,
        !.period_end = bid_info.period_end,
        !.application_start = bid_info.application_start,
        !.application_end = bid_info.application_end,
        !.status = bid_info.status,
        !.scraped_at = t,
        !.updated_at = t]

(***************************************************************************)
(* The database session: READ COMMITTED, autoflush                         *)
(***************************************************************************)
NoTxn == [ins |-> <<>>, upd |-> {}, del |-> {}]

Ids(rows) == {r.id : r \in rows}

\* the rows a statement of session s sees: the committed rows with the
\* session's own changes
View(s) ==
    LET kept == {r \in store : r.id \notin txn[s].del /\ r.id \notin Ids(txn[s].upd)}
        mine == {r \in txn[s].upd : r.id \in Ids(store) /\ r.id \notin txn[s].del}
    IN  kept \cup mine \cup Range(txn[s].ins)

\* select(func.max(Bid.bid_number)) ... or 0
MaxBidNumber(rows) == SetMax({r.bid_number : r \in rows})

\* a database without the UNIQUE constraint of bid_number
CommitFailsStale(s) == \E u \in txn[s].upd : u.id \notin Ids(store)

\* whether the transaction's statements fail at the database: a bid_number of
\* its inserts is taken (column bid_number is UNIQUE), or a row it updates is gone
CommitFails(s) ==
    \/ \E i \in 1..Len(txn[s].ins) :
          \E r \in store : r.id \notin txn[s].del
                           /\ r.bid_number = txn[s].ins[i].bid_number
    \/ \E u \in txn[s].upd : u.id \notin Ids(store)

\* the rows whose title contains one of EXCLUDE_KEYWORDS
Unwanted(rows) ==
    {r \in rows : \E i \in 1..Len(EXCLUDE_KEYWORDS) : Contains(r.title, EXCLUDE_KEYWORDS[i])}

(***************************************************************************)
(* scraper_service.py: the runs and save_bids, one step per await          *)
(***************************************************************************)
NoSummary ==
    [total_scraped |-> 0, total_filtered |-> 0, total_new |-> 0,
     municipalities |-> <<>>, errors |-> <<>>]

\* the locals of a run: kind is "none", "all" (run_all_scrapers), "single"
\* (run_single_scraper) or "direct" (save_bids called by itself)
IdleRun ==
    [kind |-> "none", municipality |-> "", results |-> <<>>, idx |-> 0,
     scraped |-> 0, bids |-> <<>>, i |-> 0, current_max |-> 0, new_count |-> 0,
     summary |-> NoSummary, outcome |-> "none"]

RECURSIVE TotalRaw(_)
TotalRaw(os) == IF os = <<>> THEN 0 ELSE Len(Head(os).raw) + TotalRaw(Tail(os))

\* what scraper.scrape() of municipality m does: it raises, or returns a list
ScrapeOptions(m, n) ==
    {[error |-> TRUE, raw |-> <<>>]}
        \cup {[error |-> FALSE, raw |-> l] : l \in SeqsUpTo(Pool(m), n)}

\* _scrape_municipality: the result dict of one scraper (raw_bids is kept as its length)
ScrapeResult(m, o, tdy) ==
    IF o.error
    THEN [municipality |-> m, scraped |-> 0, filtered_bids |-> <<>>, error |-> TRUE]
    ELSE [municipality |-> m, scraped |-> Len(o.raw),
          filtered_bids |-> filter_bids(o.raw, tdy), error |-> FALSE]

\* an exception leaves the run: the session is closed, its transaction rolled back
Raise(s) ==
    /\ pc' = [pc EXCEPT ![s] = "idle"]
    /\ run' = [run EXCEPT ![s].outcome = "raised"]
    /\ txn' = [txn EXCEPT ![s] = NoTxn]

\* run_all_scrapers, to its first commit: delete(Bid), commit
StartRunAll(s) ==
    /\ pc[s] = "idle"
    /\ now < MaxClock
    /\ store' = {}
    /\ txn' = [txn EXCEPT ![s] = NoTxn]
    /\ run' = [run EXCEPT ![s] = [IdleRun EXCEPT !.kind = "all"]]
    /\ pc' = [pc EXCEPT ![s] = "scrape"]
    /\ UNCHANGED <<today, nextId, now, high, calls, probe>>

\* run_all_scrapers: scrape_results of the gather, when the scrapers did os
ScrapeAllOf(s, os) ==
    /\ run' = [run EXCEPT ![s].results =
                  [k \in 1..Len(SCRAPERS) |-> ScrapeResult(SCRAPERS[k], os[k], today)],
               ![s].idx = 1]
    /\ pc' = [pc EXCEPT ![s] = "process"]
    /\ UNCHANGED <<today, store, txn, nextId, now, high, calls>>

\* run_all_scrapers: asyncio.gather of _scrape_municipality over SCRAPERS
ScrapeAll(s, n) ==
    /\ pc[s] = "scrape"
    /\ run[s].kind = "all"
    /\ \E os \in [1..Len(SCRAPERS) -> UNION {ScrapeOptions(m, n) : m \in MunicipalityNames}] :
          /\ \A k \in 1..Len(SCRAPERS) : os[k] \in ScrapeOptions(SCRAPERS[k], n)
          /\ TotalRaw(os) <= n
          /\ ScrapeAllOf(s, os)
    /\ UNCHANGED probe

\* a loop that records a failed scraper in the breakdown as well
ProcessCountingFailed(s) ==
    /\ pc[s] = "process"
    /\ LET r == run[s]
       IN  IF r.idx > Len(r.results)
           THEN /\ pc' = [pc EXCEPT ![s] = "idle"]
                /\ run' = [run EXCEPT ![s].outcome = "returned"]
           ELSE LET res == r.results[r.idx]
                IN  IF res.error
                    THEN /\ pc' = pc
                         /\ run' = [run EXCEPT
                               ![s].summary.errors = Append(@, res.municipality),
                               ![s].summary.municipalities =
                                   Append(@, [municipality |-> res.municipality,
                                              scraped |-> 0, filtered |-> 0, new |-> 0]),
                               ![s].idx = @ + 1]
                    ELSE /\ pc' = [pc EXCEPT ![s] = "cleanup"]
                         /\ run' = [run EXCEPT
                               ![s].summary.total_scraped = @ + res.scraped,
                               ![s].summary.total_filtered = @ + Len(res.filtered_bids),
                               ![s].municipality = res.municipality,
                               ![s].scraped = res.scraped,
                               ![s].bids = res.filtered_bids]
    /\ UNCHANGED <<today, store, txn, nextId, now, high, calls, probe>>

\* run_all_scrapers: one pass of the loop over scrape_results, up to its call of
\* save_bids; after the last result, the return of the summary
Process(s) ==
    /\ pc[s] = "process"
    /\ LET r == run[s]
       IN  IF r.idx > Len(r.results)
           THEN /\ pc' = [pc EXCEPT ![s] = "idle"]
                /\ run' = [run EXCEPT ![s].outcome = "returned"]
           ELSE LET res == r.results[r.idx]
                IN  IF res.error
                    THEN /\ pc' = pc
                         /\ run' = [run EXCEPT
                               ![s].summary.errors = Append(@, res.municipality),
                               ![s].idx = @ + 1]
                    ELSE /\ pc' = [pc EXCEPT ![s] = "cleanup"]
                         /\ run' = [run EXCEPT
                               ![s].summary.total_scraped = @ + res.scraped,
                               ![s].summary.total_filtered = @ + Len(res.filtered_bids),
                               ![s].municipality = res.municipality,
                               ![s].scraped = res.scraped,
                               ![s].bids = res.filtered_bids]
    /\ UNCHANGED <<today, store, txn, nextId, now, high, calls, probe>>

\* a run that deletes the rows of the name before it looks the name up
StartRunSingleDeleting(s, municipality) ==
    /\ pc[s] = "idle"
    /\ now < MaxClock
    /\ store' = {r \in store : r.municipality # municipality /\ municipality \in MunicipalityNames}
    /\ IF municipality \notin MunicipalityNames
       THEN /\ run' = [run EXCEPT ![s] =
                         [IdleRun EXCEPT !.kind = "single", !.municipality = municipality,
                                         !.outcome = "raised"]]
            /\ UNCHANGED pc
       ELSE /\ run' = [run EXCEPT ![s] =
                         [IdleRun EXCEPT !.kind = "single", !.municipality = municipality]]
            /\ pc' = [pc EXCEPT ![s] = "scrape"]
    /\ txn' = [txn EXCEPT ![s] = NoTxn]
    /\ UNCHANGED <<today, nextId, now, high, calls, probe>>

\* run_single_scraper, to its first commit: ValueError for a name SCRAPERS does
\* not have, else delete(Bid).where(Bid.municipality == municipality), commit
StartRunSingle(s, municipality) ==
    /\ pc[s] = "idle"
    /\ now < MaxClock
    /\ IF municipality \notin MunicipalityNames
       THEN /\ run' = [run EXCEPT ![s] =
                         [IdleRun EXCEPT !.kind = "single", !.municipality = municipality,
                                         !.outcome = "raised"]]
            /\ UNCHANGED <<store, pc>>
       ELSE /\ store' = {r \in store : r.municipality # municipality}
            /\ run' = [run EXCEPT ![s] =
                         [IdleRun EXCEPT !.kind = "single", !.municipality = municipality]]
            /\ pc' = [pc EXCEPT ![s] = "scrape"]
    /\ txn' = [txn EXCEPT ![s] = NoTxn]
    /\ UNCHANGED <<today, nextId, now, high, calls, probe>>

\* run_single_scraper: scraper.scrape() and filter_bids; an exception of scrape()
\* leaves the function (try/finally, no except)
ScrapeSingle(s, n) ==
    /\ pc[s] = "scrape"
    /\ run[s].kind = "single"
    /\ \E o \in ScrapeOptions(run[s].municipality, n) :
          IF o.error
          THEN Raise(s)
          ELSE /\ run' = [run EXCEPT ![s].scraped = Len(o.raw),
                                     ![s].bids = filter_bids(o.raw, today)]
               /\ pc' = [pc EXCEPT ![s] = "cleanup"]
               /\ txn' = txn
    /\ UNCHANGED <<today, store, nextId, now, high, calls, probe>>

\* the most calls of save_bids by itself, and the most candidates of one call
MaxCalls == 2

MaxSaveBids == 3

\* the candidates a list handed to save_bids is made of: what filter_bids keeps
\* of the listing pages
Candidates(tdy) ==
    UNION {Range(filter_bids(<<b>>, tdy)) : b \in UNION {Pool(m) : m \in MunicipalityNames}}

\* save_bids(session, bids) called by itself, to its first statement
StartSave(s, n) ==
    /\ pc[s] = "idle"
    /\ Len(calls) < MaxCalls
    /\ \E bids \in SeqsUpTo(Candidates(today), n) :
          run' = [run EXCEPT ![s] = [IdleRun EXCEPT !.kind = "direct", !.bids = bids]]
    /\ txn' = [txn EXCEPT ![s] = NoTxn]
    /\ pc' = [pc EXCEPT ![s] = "cleanup"]
    /\ UNCHANGED <<today, store, nextId, now, high, calls, probe>>

\* save_bids: cleanup_unwanted_bids, which commits when it deleted a row
Cleanup(s) ==
    /\ pc[s] = "cleanup"
    /\ store' = store \ Unwanted(View(s))
    /\ pc' = [pc EXCEPT ![s] = "readmax"]
    /\ UNCHANGED <<today, run, txn, nextId, now, high, calls, probe>>

\* save_bids: new_count = 0; current_max = select(func.max(Bid.bid_number)) or 0
ReadMax(s) ==
    /\ pc[s] = "readmax"
    /\ run' = [run EXCEPT ![s].current_max = MaxBidNumber(View(s)),
                          ![s].new_count = 0, ![s].i = 1]
    /\ pc' = [pc EXCEPT ![s] = "loop"]
    /\ UNCHANGED <<today, store, txn, nextId, now, high, calls, probe>>

\* a lookup that also compares the URL
ExistingByUrl(rows, bid_info) ==
    {r \in rows : r.title = bid_info.title /\ r.municipality = bid_info.municipality
                  /\ r.announcement_url = bid_info.announcement_url}

\* the rows of the lookup by title and municipality
Existing(rows, bid_info) ==
    {r \in rows : r.title = bid_info.title /\ r.municipality = bid_info.municipality}

\* a counter that stays where it is
SameBidNumber(current_max) == current_max

\* current_max += 1
NextBidNumber(current_max) == current_max + 1

\* save_bids: one pass of the loop over bids.  The select flushes the session
\* first, so it sees the rows this batch has added; scalar_one_or_none raises
\* MultipleResultsFound when more than one row matches
SaveRow(s) ==
    /\ pc[s] = "loop"
    /\ run[s].i <= Len(run[s].bids)
    /\ LET bid_info == run[s].bids[run[s].i]
           found == Existing(View(s), bid_info)
       IN  IF Cardinality(found) > 1
           THEN Raise(s) /\ UNCHANGED <<nextId, now, high>>
           ELSE /\ pc' = pc
                /\ now' = now + 1
                /\ IF found # {}
                   THEN LET existing == CHOOSE r \in found : TRUE
                            updated == UpdateBid(existing, bid_info, now)
                            mine == {j \in 1..Len(txn[s].ins) : txn[s].ins[j].id = existing.id}
                        IN  /\ txn' = IF mine # {}
                                      THEN [txn EXCEPT ![s].ins =
                                              [j \in 1..Len(@) |->
                                                 IF j \in mine THEN updated ELSE @[j]]]
                                      ELSE [txn EXCEPT ![s].upd =
                                              {u \in @ : u.id # existing.id} \cup {updated}]
                            /\ run' = [run EXCEPT ![s].i = @ + 1]
                            /\ UNCHANGED <<nextId, high>>
                   ELSE LET number == NextBidNumber(run[s].current_max)
                        IN  /\ txn' = [txn EXCEPT ![s].ins =
                                         Append(@, NewBid(bid_info, nextId, number, now))]
                            /\ run' = [run EXCEPT ![s].i = @ + 1,
                                                  ![s].current_max = number,
                                                  ![s].new_count = @ + 1]
                            /\ nextId' = nextId + 1
                            /\ high' = IF number > high THEN number ELSE high
    /\ UNCHANGED <<today, store, calls, probe>>

\* save_bids: commit and return new_count, and what the caller does with it:
\* run_all_scrapers adds it to the summary and goes on, run_single_scraper
\* returns; a call of save_bids by itself is recorded in calls
SaveCommit(s) ==
    /\ pc[s] = "loop"
    /\ run[s].i > Len(run[s].bids)
    /\ IF CommitFails(s)
       THEN Raise(s) /\ UNCHANGED <<store, calls>>
       ELSE /\ store' = View(s)
            /\ txn' = [txn EXCEPT ![s] = NoTxn]
            /\ LET r == run[s]
                   entry == [municipality |-> r.municipality, scraped |-> r.scraped,
                             filtered |-> Len(r.bids), new |-> r.new_count]
               IN  CASE r.kind = "all" ->
                          /\ run' = [run EXCEPT
                                ![s].summary.total_new = @ + r.new_count,
                                ![s].summary.municipalities = Append(@, entry),
                                ![s].idx = @ + 1]
                          /\ pc' = [pc EXCEPT ![s] = "process"]
                          /\ calls' = calls
                     [] r.kind = "single" ->
                          /\ run' = [run EXCEPT ![s].summary.municipalities = <<entry>>,
                                                ![s].outcome = "returned"]
                          /\ pc' = [pc EXCEPT ![s] = "idle"]
                          /\ calls' = calls
                     [] r.kind = "direct" ->
                          /\ run' = [run EXCEPT ![s].outcome = "returned"]
                          /\ calls' = Append(calls, [bids |-> r.bids,
                                                     new_count |-> r.new_count,
                                                     rows |-> View(s)])
                          /\ pc' = [pc EXCEPT ![s] = "idle"]
    /\ UNCHANGED <<today, nextId, now, high, probe>>

(***************************************************************************)
(* The pipeline, one run at a time                                         *)
(***************************************************************************)
Init ==
    /\ today \in RunDays
    /\ store = {}
    /\ pc = [s \in Sessions |-> "idle"]
    /\ run = [s \in Sessions |-> IdleRun]
    /\ txn = [s \in Sessions |-> NoTxn]
    /\ nextId = 1
    /\ now = 1
    /\ high = 0
    /\ calls = <<>>
    /\ probe = <<>>

\* no other session has a run under way
Alone(s) == \A t \in Sessions \ {s} : pc[t] = "idle"

\* the scheduled job runs run_all_scrapers; POST /scrape runs either
Next ==
    \/ \E s \in Sessions : Alone(s) /\ StartRunAll(s)
    \/ \E s \in Sessions : Alone(s) /\ ScrapeAll(s, MaxBids)
    \/ \E s \in Sessions : Alone(s) /\ Process(s)
    \/ \E m \in MunicipalityNames \cup {UnknownName} :
          Alone("manual") /\ StartRunSingle("manual", m)
    \/ \E s \in Sessions : Alone(s) /\ ScrapeSingle(s, MaxBids)
    \/ \E s \in Sessions : Alone(s) /\ Cleanup(s)
    \/ \E s \in Sessions : Alone(s) /\ ReadMax(s)
    \/ \E s \in Sessions : Alone(s) /\ SaveRow(s)
    \/ \E s \in Sessions : Alone(s) /\ SaveCommit(s)

Spec == Init /\ [][Next]_vars

(***************************************************************************)
(* Reconciliation by itself: calls of save_bids, one at a time             *)
(***************************************************************************)
NextSave ==
    \/ \E s \in Sessions : Alone(s) /\ StartSave(s, MaxSaveBids)
    \/ \E s \in Sessions : Alone(s) /\ Cleanup(s)
    \/ \E s \in Sessions : Alone(s) /\ ReadMax(s)
    \/ \E s \in Sessions : Alone(s) /\ SaveRow(s)
    \/ \E s \in Sessions : Alone(s) /\ SaveCommit(s)

SpecSave == Init /\ [][NextSave]_vars

HitStep(s) ==
    /\ pc[s] = "loop"
    /\ run[s].i <= Len(run[s].bids)
    /\ run'[s].i = run[s].i + 1
    /\ Existing(View(s), run[s].bids[run[s].i]) # {}

C4Idempotent ==
    (Len(calls) >= 2 /\ calls[1].bids = calls[2].bids) =>
        /\ calls[1].new_count = Cardinality(calls[1].rows)
        /\ calls[2].new_count = 0
        /\ {<<r.id, r.bid_number>> : r \in calls[2].rows}
              = {<<r.id, r.bid_number>> : r \in calls[1].rows}

MaxReiwa == 13

\* the days the filter runs on: in fiscal years 2024 (令和6), 2025 (before and
\* at its end), 2026 and 2030
FilterDays ==
    {Date(2025, 1, 10), Date(2025, 4, 1), Date(2026, 3, 31), Date(2026, 4, 1),
     Date(2030, 6, 15)}

\* a deadline after every one of FilterDays
FarDeadline == Date(2031, 1, 1)

\* 広報業務に関する質問と回答, イベント広報SNS運用業務, pr動画制作業務, Promotion動画制作業務
TitleQa == <<"u5E83", "u5831", "u696D", "u52D9", "u306B", "u95A2", "u3059", "u308B", "u8CEA", "u554F", "u3068", "u56DE", "u7B54">>

TitleMixed == <<"u30A4", "u30D9", "u30F3", "u30C8", "u5E83", "u5831", "S", "N", "S", "u904B", "u7528", "u696D", "u52D9">>

TitleLowerPr == <<"p", "r", "u52D5", "u753B", "u5236", "u4F5C", "u696D", "u52D9">>

TitlePromotion == <<"P", "r", "o", "m", "o", "t", "i", "o", "n", "u52D5", "u753B", "u5236", "u4F5C", "u696D", "u52D9">>

FullChar(c) == CHOOSE f \in FullDigits : HalfChar(f) = c

\* 令和N年度広報業務 with half-width or full-width digits, or (N+2018)年度広報業務
FiscalTitle(form, n) ==
    CASE form = "half" -> <<"u4EE4", "u548C">> \o NatToStr(n) \o <<"u5E74", "u5EA6", "u5E83", "u5831", "u696D", "u52D9">>
      [] form = "full" ->
           <<"u4EE4", "u548C">> \o [i \in 1..Len(NatToStr(n)) |-> FullChar(NatToStr(n)[i])]
               \o <<"u5E74", "u5EA6", "u5E83", "u5831", "u696D", "u52D9">>
      [] form = "western" -> NatToStr(n + 2018) \o <<"u5E74", "u5EA6", "u5E83", "u5831", "u696D", "u52D9">>

\* the titles of the listings: those of the pipeline, the ones above, and the
\* ones that name a fiscal year
Listings ==
    {[title |-> t, form |-> "none", n |-> 0] :
        t \in {TitleKoho, TitleStall, TitleSns, TitleRoad, TitleQa, TitleMixed,
               TitleLowerPr, TitlePromotion}}
    \cup {[title |-> FiscalTitle(f, n), form |-> f, n |-> n] :
            f \in {"half", "full", "western"}, n \in 1..MaxReiwa}

\* the candidate a scraper makes of a listing: with a deadline and a category
\* of its own, or with neither
Listed(title, dated) ==
    IF dated
    THEN BidInfo(title, SCRAPERS[1], "url1", Some("adapter"), None, None, Some(FarDeadline))
    ELSE BidInfo(title, SCRAPERS[1], "url1", None, None, None, None)

\* the candidate that follows it in the list, when the list has two
Companion ==
    BidInfo(TitleKoho, SCRAPERS[2], "url3", None, None, None, Some(FarDeadline))

InitFilter ==
    /\ today \in FilterDays
    /\ \E l \in Listings : \E dated, paired \in BOOLEAN :
          probe = [stage |-> "listed", title |-> l.title, form |-> l.form, n |-> l.n,
                   bids |-> IF paired THEN <<Listed(l.title, dated), Companion>>
                            ELSE <<Listed(l.title, dated)>>,
                   category |-> None, qa |-> FALSE, past |-> FALSE, old |-> FALSE,
                   excluded |-> FALSE, out |-> <<>>]
    /\ store = {}
    /\ pc = [s \in Sessions |-> "idle"]
    /\ run = [s \in Sessions |-> IdleRun]
    /\ txn = [s \in Sessions |-> NoTxn]
    /\ nextId = 1
    /\ now = 1
    /\ high = 0
    /\ calls = <<>>

\* the functions of the title, each applied to the listing's title
CheckTitle ==
    /\ probe.stage = "listed"
    /\ probe' = [probe EXCEPT
                    !.stage = "checked",
                    !.category = categorize_bid(probe.title),
                    !.qa = is_qa_or_supplementary(probe.title),
                    !.past = is_past_fiscal_year(probe.title, today),
                    !.old = _is_old_fiscal_year(probe.title, today),
                    !.excluded = _should_exclude_by_title(probe.title)]
    /\ UNCHANGED <<today, store, pc, run, txn, nextId, now, high, calls>>

\* filter_bids(bids)
RunFilter ==
    /\ probe.stage = "checked"
    /\ probe' = [probe EXCEPT !.stage = "filtered",
                              !.out = filter_bids(probe.bids, today)]
    /\ UNCHANGED <<today, store, pc, run, txn, nextId, now, high, calls>>

NextFilter == CheckTitle \/ RunFilter

SpecFilter == InitFilter /\ [][NextFilter]_vars

\* the titles of the bids filter_bids returned
Kept == {probe.out[i].title : i \in 1..Len(probe.out)}

\* C7: a candidate whose title has a keyword of the deny-list (the Q&A and
\* result patterns, the recruitment keywords such as 出店者募集) is not in the
\* output of filter_bids, whatever category keyword and dates it has.
C7DenyListExcluded ==
    (probe.stage = "filtered" /\ (probe.qa \/ probe.excluded)) => probe.title \notin Kept

\* C8: a title that names 令和N年度 (half-width or full-width digits) with
\* N + 2018 before the current fiscal year is rejected by filter_bids, for
\* every today and every N.
C8StaleYearRejected ==
    (/\ probe.stage = "filtered"
     /\ probe.form \in {"half", "full"}
     /\ probe.n + 2018 < CurrentFiscalYear(today)) => probe.title \notin Kept

\* C9: a title that names only the current or the next fiscal year (令和N年度
\* with half-width or full-width digits, or 20NN年度) is rejected neither by
\* is_past_fiscal_year nor by _is_old_fiscal_year, for every today.
C9CurrentAndNextYearKept ==
    (/\ probe.stage # "listed"
     /\ probe.form # "none"
     /\ probe.n + 2018 \in {CurrentFiscalYear(today), CurrentFiscalYear(today) + 1})
        => (~probe.past /\ ~probe.old)

\* whether a keyword of the i-th category is in the title, case ignored
HasKeywordOf(i, title) ==
    \E k \in 1..Len(KEYWORDS[i].keywords) :
        Contains(Lower(title), Lower(KEYWORDS[i].keywords[k]))

\* the first of 広報, プロモーション, イベント with a keyword in the title
FirstCategory(title) ==
    IF HasKeywordOf(1, title) THEN Some(CatKoho)
    ELSE IF HasKeywordOf(2, title) THEN Some(CatPromotion)
    ELSE IF HasKeywordOf(3, title) THEN Some(CatEvent)
    ELSE None

\* C10: categorize_bid returns the first of 広報, プロモーション, イベント that has
\* a keyword in the title, case ignored, and None when none has; filter_bids
\* rejects a candidate without category and gives every bid it returns that
\* category, whatever category the scraper gave it.
C10FirstCategory ==
    /\ <<KEYWORDS[1].category, KEYWORDS[2].category, KEYWORDS[3].category>>
          = <<CatKoho, CatPromotion, CatEvent>>
    /\ probe.stage # "listed" => probe.category = FirstCategory(probe.title)
    /\ probe.stage = "filtered" =>
          /\ FirstCategory(probe.title) = None => probe.title \notin Kept
          /\ \A i \in 1..Len(probe.out) :
                probe.out[i].category = FirstCategory(probe.out[i].title)

\* a candidate the scraper gave a category, with keywords of イベント, 広報 and
\* プロモーション in its title, has come out of filter_bids as 広報
C10Witness ==
    /\ probe.stage = "filtered"
    /\ probe.title = TitleMixed
    /\ probe.bids[1].category = Some("adapter")
    /\ HasKeywordOf(3, probe.title) /\ HasKeywordOf(2, probe.title)
    /\ Len(probe.out) >= 1
    /\ probe.out[1].title = probe.title
    /\ probe.out[1].category = Some(CatKoho)

(***************************************************************************)
(* Overlapping runs: the scheduled job and POST /scrape, each in its own   *)
(* session, their awaits interleaved                                       *)
(***************************************************************************)
\* the most candidates the scrapers of one of two overlapping runs return
MaxOverlapBids == 1

NextOverlap ==
    \/ \E s \in Sessions : StartRunAll(s)
    \/ \E s \in Sessions : ScrapeAll(s, MaxOverlapBids)
    \/ \E s \in Sessions : Process(s)
    \/ \E m \in MunicipalityNames \cup {UnknownName} : StartRunSingle("manual", m)
    \/ \E s \in Sessions : ScrapeSingle(s, MaxOverlapBids)
    \/ \E s \in Sessions : Cleanup(s)
    \/ \E s \in Sessions : ReadMax(s)
    \/ \E s \in Sessions : SaveRow(s)
    \/ \E s \in Sessions : SaveCommit(s)

SpecOverlap == Init /\ [][NextOverlap]_vars

DateDays == {Date(2025, 1, 10), Date(2024, 3, 1), Date(2023, 12, 31), Date(2024, 2, 29)}

\* the months and the days of the month an annotation names, and the 令和 years
AnnotatedMonths == {1, 2, 3, 12}

AnnotatedDays == {1, 9, 10, 15, 28, 29, 30, 31}

AnnotatedReiwa == {5, 6, 7}

\* the day k days after dt (before it when k < 0)
DayAt(dt, k) ==
    CHOOSE x \in {Date(y, m, d) : y \in (dt.y - 1)..(dt.y + 1), m \in 1..12, d \in 1..31} :
        ValidDate(x.y, x.m, x.d) /\ Ordinal(x) = Ordinal(dt) + k

\* 広報ポスターデザイン募集【M月D日締切】, 広報業務委託 締切：M月D日,
\* 広報業務委託 M月D日まで, 広報業務委託 提出期限：令和R年M月D日,
\* 広報業務委託（M月D日掲載）, 令和R年M月D日公告 広報業務委託
AnnotatedTitle(form, r, m, d) ==
    LET md == NatToStr(m) \o <<"u6708">> \o NatToStr(d) \o <<"u65E5">>
        rmd == <<"u4EE4", "u548C">> \o NatToStr(r) \o <<"u5E74">> \o md
    IN  CASE form = "bracket" -> <<"u5E83", "u5831", "u30DD", "u30B9", "u30BF", "u30FC", "u30C7", "u30B6", "u30A4", "u30F3", "u52DF", "u96C6", "u3010">> \o md \o <<"u7DE0", "u5207", "u3011">>
          [] form = "colon" -> <<"u5E83", "u5831", "u696D", "u52D9", "u59D4", "u8A17", " ", "u7DE0", "u5207", "uFF1A">> \o md
          [] form = "made" -> <<"u5E83", "u5831", "u696D", "u52D9", "u59D4", "u8A17", " ">> \o md \o <<"u307E", "u3067">>
          [] form = "reiwa" -> <<"u5E83", "u5831", "u696D", "u52D9", "u59D4", "u8A17", " ", "u63D0", "u51FA", "u671F", "u9650", "uFF1A">> \o rmd
          [] form = "keisai" -> <<"u5E83", "u5831", "u696D", "u52D9", "u59D4", "u8A17", "uFF08">> \o md \o <<"u63B2", "u8F09", "uFF09">>
          [] form = "koukoku" -> rmd \o <<"u516C", "u544A", " ", "u5E83", "u5831", "u696D", "u52D9", "u59D4", "u8A17">>

YearlessForms == {"bracket", "colon", "made"}

Annotations ==
    {[form |-> f, r |-> 0, m |-> m, d |-> d] :
        f \in YearlessForms \cup {"keisai"}, m \in AnnotatedMonths, d \in AnnotatedDays}
    \cup {[form |-> f, r |-> r, m |-> m, d |-> d] :
            f \in {"reiwa", "koukoku"}, r \in AnnotatedReiwa, m \in AnnotatedMonths,
            d \in AnnotatedDays}

NoAnnotation == [form |-> "none", r |-> 0, m |-> 0, d |-> 0]

\* the candidates: a title with an annotation and no dates of its own; a
\* title with a start annotation and a deadline of its own; a plain title
\* with dates around today, or without
DatedCandidates(tdy) ==
    {[note |-> a,
      bid |-> BidInfo(AnnotatedTitle(a.form, a.r, a.m, a.d), SCRAPERS[1], "url1",
                      None, None, None, None)] : a \in Annotations}
    \cup {[note |-> a,
           bid |-> BidInfo(AnnotatedTitle(a.form, a.r, a.m, a.d), SCRAPERS[1], "url1",
                           None, None, None, Some(DayAt(tdy, 1)))] :
            a \in {x \in Annotations : x.form \in {"keisai", "koukoku"}}}
    \cup {[note |-> NoAnnotation,
           bid |-> BidInfo(TitleKoho, SCRAPERS[1], "url1", None, None, start, end)] :
            start \in {None, Some(DayAt(tdy, -31)), Some(DayAt(tdy, -30)),
                       Some(DayAt(tdy, 1))},
            end \in {None, Some(DayAt(tdy, -1)), Some(tdy), Some(DayAt(tdy, 1))}}

InitDates ==
    /\ today \in DateDays
    /\ \E c \in DatedCandidates(today) :
          probe = [stage |-> "listed", note |-> c.note, bid |-> c.bid,
                   deadline |-> None, start |-> None,
                   active |-> <<FALSE, c.bid>>, recent |-> <<FALSE, c.bid>>,
                   out |-> <<>>]
    /\ store = {}
    /\ pc = [s \in Sessions |-> "idle"]
    /\ run = [s \in Sessions |-> IdleRun]
    /\ txn = [s \in Sessions |-> NoTxn]
    /\ nextId = 1
    /\ now = 1
    /\ high = 0
    /\ calls = <<>>

\* extract_deadline_from_title(title) and extract_start_date_from_title(title)
ExtractDates ==
    /\ probe.stage = "listed"
    /\ probe' = [probe EXCEPT
                    !.stage = "extracted",
                    !.deadline = extract_deadline_from_title(probe.bid.title, today),
                    !.start = extract_start_date_from_title(probe.bid.title, today)]
    /\ UNCHANGED <<today, store, pc, run, txn, nextId, now, high, calls>>

\* is_bid_active(bid)
CheckActive ==
    /\ probe.stage = "extracted"
    /\ probe' = [probe EXCEPT !.stage = "active",
                              !.active = is_bid_active(probe.bid, today)]
    /\ UNCHANGED <<today, store, pc, run, txn, nextId, now, high, calls>>

\* is_recently_announced(bid, days=30), on the bid as the activity check left it
CheckRecent ==
    /\ probe.stage = "active"
    /\ probe' = [probe EXCEPT
                    !.stage = "recent",
                    !.recent = is_recently_announced(probe.active[2], 30, today)]
    /\ UNCHANGED <<today, store, pc, run, txn, nextId, now, high, calls>>

\* filter_bids([bid])
FilterDated ==
    /\ probe.stage = "recent"
    /\ probe' = [probe EXCEPT !.stage = "filtered",
                              !.out = filter_bids(<<probe.bid>>, today)]
    /\ UNCHANGED <<today, store, pc, run, txn, nextId, now, high, calls>>

NextDates == ExtractDates \/ CheckActive \/ CheckRecent \/ FilterDated

SpecDates == InitDates /\ [][NextDates]_vars

\* the candidate passes the checks that come before the activity check
PassesTitleChecks ==
    /\ ~is_qa_or_supplementary(probe.bid.title)
    /\ ~is_past_fiscal_year(probe.bid.title, today)
    /\ categorize_bid(probe.bid.title) # None

\* C11: a candidate that passed the title, fiscal-year and category checks
\* passes the activity check exactly when its application_end is populated and
\* not before today, or is absent while the title's deadline extractor gives a
\* date not before today, which is then stored as application_end; without a
\* deadline from either source it is excluded; every bid filter_bids returns
\* has an application_end, not before today.
C11ActiveNeedsDeadline ==
    /\ probe.stage \in {"active", "recent", "filtered"} =>
          /\ probe.active[1] <=>
                \/ IsSome(probe.bid.application_end)
                      /\ DateGe(Val(probe.bid.application_end), today)
                \/ probe.bid.application_end = None /\ IsSome(probe.deadline)
                      /\ DateGe(Val(probe.deadline), today)
          /\ (probe.bid.application_end = None /\ IsSome(probe.deadline))
                => probe.active[2].application_end = probe.deadline
    /\ probe.stage = "filtered" =>
          /\ (PassesTitleChecks /\ ~probe.active[1]) => probe.out = <<>>
          /\ (PassesTitleChecks /\ probe.active[1] /\ probe.recent[1]) => Len(probe.out) = 1
          /\ \A i \in 1..Len(probe.out) :
                /\ IsSome(probe.out[i].application_end)
                /\ DateGe(Val(probe.out[i].application_end), today)

\* a bid kept on the strength of its title's deadline, and one dropped for
\* having no deadline at all
C11Witness ==
    /\ probe.stage = "filtered"
    /\ probe.note.form = "bracket"
    /\ Len(probe.out) = 1
    /\ probe.out[1].application_end = probe.deadline

C11WitnessNoDeadline ==
    /\ probe.stage = "filtered"
    /\ probe.note.form = "none"
    /\ probe.bid.application_end = None
    /\ PassesTitleChecks
    /\ probe.out = <<>>

\* the year the roll-forward rule names for month m, day d: this year when
\* that day of this year is today or later, next year otherwise
RolledYear(tdy, m, d) ==
    IF ValidDate(tdy.y, m, d) /\ DateGe(Date(tdy.y, m, d), tdy) THEN tdy.y ELSE tdy.y + 1

\* C12: for a title with a year-less deadline annotation (【M月D日締切】,
\* 締切：M月D日, M月D日まで) and any today, extract_deadline_from_title returns
\* month M, day D of the current year when that date is today or later, and
\* of the next year otherwise; the returned date is never before today.
C12RollsForward ==
    (/\ probe.stage # "listed"
     /\ probe.note.form \in YearlessForms
     /\ ValidDate(RolledYear(today, probe.note.m, probe.note.d), probe.note.m, probe.note.d))
    => /\ probe.deadline = Some(Date(RolledYear(today, probe.note.m, probe.note.d),
                                     probe.note.m, probe.note.d))
       /\ DateGe(Val(probe.deadline), today)

\* C13: is_recently_announced accepts a candidate exactly when its
\* application_start is populated and no more than 30 days before today; or is
\* absent while the title's start-date extractor gives a date no more than 30
\* days before today, which is then stored as application_start; or no start
\* date comes from either source, and then application_start is set to today.
C13RecentWithin30Days ==
    probe.stage \in {"recent", "filtered"} =>
        LET before == probe.active[2].application_start
            cutoff == Ordinal(today) - 30
        IN  /\ probe.recent[1] <=>
                  \/ IsSome(before) /\ Ordinal(Val(before)) >= cutoff
                  \/ before = None /\ IsSome(probe.start)
                        /\ Ordinal(Val(probe.start)) >= cutoff
                  \/ before = None /\ probe.start = None
            /\ IsSome(before) => probe.recent[2].application_start = before
            /\ (before = None /\ IsSome(probe.start))
                  => probe.recent[2].application_start = probe.start
            /\ (before = None /\ probe.start = None)
                  => probe.recent[2].application_start = Some(today)

\* a start date taken from the title and found recent, and one on the cutoff day
C13Witness ==
    /\ probe.stage = "recent"
    /\ probe.note.form = "keisai"
    /\ probe.recent[1]
    /\ IsSome(probe.start)
    /\ Ordinal(Val(probe.start)) < Ordinal(today)
    /\ probe.recent[2].application_start = probe.start

C13WitnessCutoff ==
    /\ probe.stage = "recent"
    /\ IsSome(probe.bid.application_start)
    /\ Ordinal(Val(probe.bid.application_start)) = Ordinal(today) - 30
    /\ probe.recent[1]

(***************************************************************************)
(* The scheduled job on two days: a deadline passes between its runs       *)
(***************************************************************************)
\* the most candidates the scrapers of one of these runs return together
MaxDayBids == 1

\* the day before the day of RunDays: the last day of the deadline of url3
DayBefore == Date(2025, 1, 9)

InitDays ==
    /\ today = DayBefore
    /\ store = {}
    /\ pc = [s \in Sessions |-> "idle"]
    /\ run = [s \in Sessions |-> IdleRun]
    /\ txn = [s \in Sessions |-> NoTxn]
    /\ nextId = 1
    /\ now = 1
    /\ high = 0
    /\ calls = <<>>
    /\ probe = [before |-> {}, raw_bids |-> <<>>]

\* date.today() moves on while no run is under way; probe.before keeps the
\* table as the day begins
Midnight ==
    /\ today = DayBefore
    /\ \A s \in Sessions : pc[s] = "idle"
    /\ today' \in RunDays
    /\ probe' = [before |-> store, raw_bids |-> <<>>]
    /\ UNCHANGED <<store, pc, run, txn, nextId, now, high, calls>>

\* ScrapeAll; probe.raw_bids keeps the raw_bids of the results as
\* filter_bids left them: it sets category, dates and status on the objects
\* of the list it is given
ScrapeAllSeen(s, n) ==
    /\ pc[s] = "scrape"
    /\ run[s].kind = "all"
    /\ \E os \in [1..Len(SCRAPERS) -> UNION {ScrapeOptions(m, n) : m \in MunicipalityNames}] :
          /\ \A k \in 1..Len(SCRAPERS) : os[k] \in ScrapeOptions(SCRAPERS[k], n)
          /\ TotalRaw(os) <= n
          /\ ScrapeAllOf(s, os)
          /\ LET Marked(raw) == [i \in 1..Len(raw) |-> FilterOne(raw[i], today)[2]]
             IN  probe' = [probe EXCEPT !.raw_bids = Marked(os[1].raw \o os[2].raw)]

NextDays ==
    \/ Midnight
    \/ StartRunAll("scheduled")
    \/ ScrapeAllSeen("scheduled", MaxDayBids)
    \/ Process("scheduled")
    \/ Cleanup("scheduled")
    \/ ReadMax("scheduled")
    \/ SaveRow("scheduled")
    \/ SaveCommit("scheduled")

SpecDays == InitDays /\ [][NextDays]_vars

\* the records of the store for the title and municipality of candidate c
RecordsOf(rows, c) == {r \in rows : r.title = c.title /\ r.municipality = c.municipality}

\* C14: when the filter finds a candidate inactive (it marks it 募集終了) and a
\* record with the same title and municipality was in the store, then once the
\* run has returned the store holds that record with status 募集終了: neither
\* left 募集中 nor deleted.
C14ClosedNotDeleted ==
    \A s \in Sessions :
        (run[s].kind = "all" /\ run[s].outcome = "returned") =>
            \A i \in 1..Len(probe.raw_bids) :
                (/\ probe.raw_bids[i].status = StatusClosed
                 /\ RecordsOf(probe.before, probe.raw_bids[i]) # {})
                => \E q \in RecordsOf(store, probe.raw_bids[i]) : q.status = StatusClosed

(***************************************************************************)
(* scrapers/base.py: the dates and amounts of a page                       *)
(***************************************************************************)
\* str.strip()
RECURSIVE Strip(_)
Strip(s) ==
    IF s = <<>> THEN s
    ELSE IF Head(s) \in Spaces THEN Strip(Tail(s))
    ELSE IF s[Len(s)] \in Spaces THEN Strip(SubSeq(s, 1, Len(s) - 1))
    ELSE s

\* datetime.strptime(s, fmt).date() under try/except ValueError, for a format
\* pre %Y sep1 %m sep2 %d post: the directives' patterns of _strptime, matched
\* from the start; ValueError unless the match takes all of s and is a date
Strptime(s, pre, sep1, sep2, post) ==
    LET nonzero == AsciiDigits \ {"0"}
        Y == Grp(1, D(4, 4))
        m == Grp(2, Alt(<<Cat(<<In({"1"}), In({"0", "1", "2"})>>),
                          Cat(<<In({"0"}), In(nonzero)>>), In(nonzero)>>))
        d == Grp(3, Alt(<<Cat(<<In({"3"}), In({"0", "1"})>>),
                          Cat(<<In({"1", "2"}), In(Digits)>>),
                          Cat(<<In({"0"}), In(nonzero)>>), In(nonzero),
                          Cat(<<In({" "}), In(nonzero)>>)>>))
        Found(f) == IF f.ok /\ f.e = Len(s) + 1
                    THEN MkDate(StrToInt(Group(s, f, 1)), StrToInt(Strip(Group(s, f, 2))),
                                StrToInt(Strip(Group(s, f, 3))))
                    ELSE None
    IN  Found(Match(Cat(<<Lit(pre), Y, Lit(sep1), m, Lit(sep2), d, Lit(post)>>), s))

\* parse_date that looks for a western date before the 令和 one
parse_date_western_first(date_str) ==
    LET reiwa_re == Cat(<<Reiwa, Grp(1, D(1, Inf)), Nen, Lazy(NotIn({"u6708"}), 0, Inf),
                          Grp(2, D(1, Inf)), Tsuki, Grp(3, D(1, Inf)), Nichi>>)
        western_re == Cat(<<Grp(1, D(4, 4)), Nen, Grp(2, D(1, 2)), Tsuki,
                            Grp(3, D(1, 2)), Nichi>>)
        Try(s, add, f) ==
            IF f.ok THEN DateOf(Group(s, f, 1), add, Group(s, f, 2), Group(s, f, 3))
            ELSE None
        Parse(s) ==
            FirstSome(<<Try(s, 0, Search(western_re, s)),
                        IF Contains(s, <<"u4EE4", "u548C">>) THEN Try(s, 2018, Search(reiwa_re, s))
                        ELSE None,
                        Strptime(s, <<>>, <<"u5E74">>, <<"u6708">>, <<"u65E5">>),
                        Strptime(s, <<>>, <<"/">>, <<"/">>, <<>>),
                        Strptime(s, <<>>, <<"-">>, <<"-">>, <<>>),
                        Strptime(s, <<>>, <<".">>, <<".">>, <<>>),
                        Strptime(s, <<"u4EE4", "u548C">>, <<"u5E74">>, <<"u6708">>, <<"u65E5">>)>>)
    IN  IF date_str = <<>> THEN None ELSE Parse(full_to_half(Strip(date_str)))

\* parse_date: the 令和 pattern, the western pattern, then the formats in
\* order; the first that gives a date returns it, a ValueError of date() or
\* strptime() passes on to the next, an OverflowError leaves the function
parse_date(date_str) ==
    LET \* 令和(\d+)年[^月]*?(\d+)月(\d+)日
        reiwa_re == Cat(<<Reiwa, Grp(1, D(1, Inf)), Nen, Lazy(NotIn({"u6708"}), 0, Inf),
                          Grp(2, D(1, Inf)), Tsuki, Grp(3, D(1, Inf)), Nichi>>)
        \* (\d{4})年(\d{1,2})月(\d{1,2})日
        western_re == Cat(<<Grp(1, D(4, 4)), Nen, Grp(2, D(1, 2)), Tsuki,
                            Grp(3, D(1, 2)), Nichi>>)
        Try(s, add, f) ==
            IF f.ok THEN DateOf(Group(s, f, 1), add, Group(s, f, 2), Group(s, f, 3))
            ELSE None
        Parse(s) ==
            FirstSome(<<IF Contains(s, <<"u4EE4", "u548C">>) THEN Try(s, 2018, Search(reiwa_re, s))
                        ELSE None,
                        Try(s, 0, Search(western_re, s)),
                        Strptime(s, <<>>, <<"u5E74">>, <<"u6708">>, <<"u65E5">>),
                        Strptime(s, <<>>, <<"/">>, <<"/">>, <<>>),
                        Strptime(s, <<>>, <<"-">>, <<"-">>, <<>>),
                        Strptime(s, <<>>, <<".">>, <<".">>, <<>>),
                        Strptime(s, <<"u4EE4", "u548C">>, <<"u5E74">>, <<"u6708">>, <<"u65E5">>)>>)
    IN  IF date_str = <<>> THEN None ELSE Parse(full_to_half(Strip(date_str)))

\* _parse_flexible_date that takes last year's date from 2 months ahead on
_parse_flexible_date_near(date_str, tdy) ==
    LET yearless_re == Cat(<<Grp(1, D(1, 2)), Tsuki, Grp(2, D(1, 2)), Nichi>>)
        Infer(month, day) ==
            MkDate(IF month - tdy.m >= 2 THEN tdy.y - 1 ELSE tdy.y, month, day)
        Yearless(s, f) ==
            IF f.ok THEN Infer(StrToInt(Group(s, f, 1)), StrToInt(Group(s, f, 2)))
            ELSE None
        Parsed(s, parsed) ==
            IF parsed # None THEN parsed ELSE Yearless(s, Match(yearless_re, s))
        Flexible(s) == Parsed(s, parse_date(s))
    IN  IF date_str = <<>> THEN None ELSE Flexible(full_to_half(Strip(date_str)))

\* _parse_flexible_date: parse_date, else month and day at the start of the
\* text with the year inferred: last year when the month is more than 2 months
\* ahead of today's, this year otherwise
_parse_flexible_date(date_str, tdy) ==
    LET \* (\d{1,2})月(\d{1,2})日
        yearless_re == Cat(<<Grp(1, D(1, 2)), Tsuki, Grp(2, D(1, 2)), Nichi>>)
        Infer(month, day) ==
            MkDate(IF month - tdy.m > 2 THEN tdy.y - 1 ELSE tdy.y, month, day)
        Yearless(s, f) ==
            IF f.ok THEN Infer(StrToInt(Group(s, f, 1)), StrToInt(Group(s, f, 2)))
            ELSE None
        Parsed(s, parsed) ==
            IF parsed # None THEN parsed ELSE Yearless(s, Match(yearless_re, s))
        Flexible(s) == Parsed(s, parse_date(s))
    IN  IF date_str = <<>> THEN None ELSE Flexible(full_to_half(Strip(date_str)))

\* parse_amount: the first unit of 億, 万, 千 that the text has with a literal
\* before it, else the first run of digits and commas. float() and int() are
\* not under a try: their ValueError leaves the function. The float product
\* is computed exactly, as it is for a literal with a finite binary expansion
\* (an integer, or a fraction such as .5 or .25).
parse_amount(amount_str) ==
    LET half(s) == [i \in 1..Len(s) |-> IF s[i] = "uFF0C" THEN "," ELSE HalfChar(s[i])]
        NoCommas(t) == SelectSeq(t, LAMBDA c : c # ",")
        Dots(t) == Len(SelectSeq(t, LAMBDA c : c = "."))
        RECURSIVE Pow10(_)
        Pow10(k) == IF k = 0 THEN 1 ELSE 10 * Pow10(k - 1)
        Point(t) == CHOOSE i \in 1..(Len(t) + 1) : i = Len(t) + 1 \/ t[i] = "."
        Fraction(frac, unit) ==
            IF Pow10(Len(frac)) <= unit
            THEN StrToInt(frac) * (unit \div Pow10(Len(frac)))
            ELSE StrToInt(frac) \div (Pow10(Len(frac)) \div unit)
        \* int(float(t) * unit)
        Scaled(t, unit) ==
            IF Dots(t) > 1 \/ Len(t) = Dots(t) THEN Raised("ValueError")
            ELSE Some(StrToInt(SubSeq(t, 1, Point(t) - 1)) * unit
                      + Fraction(SubSeq(t, Point(t) + 1, Len(t)), unit))
        \* int(t)
        Whole(t) == IF t = <<>> THEN Raised("ValueError") ELSE Some(StrToInt(t))
        Literal(chars, unit) == Cat(<<Grp(1, Plus(In(chars))), Star(In(Spaces)), Lit(unit)>>)
        WithUnit(s, f, unit) == 
            IF f.ok THEN Scaled(NoCommas(Group(s, f, 1)), unit) ELSE None
        Unit(s, name, chars, unit) ==
            IF Contains(s, name) THEN WithUnit(s, Search(Literal(chars, name), s), unit)
            ELSE None
        Plain(s, f) == IF f.ok THEN Whole(NoCommas(Group(s, f, 1))) ELSE None
        Amount(s) ==
            FirstSome(<<Unit(s, <<"u5104">>, Digits \cup {",", "."}, 100000000),
                        Unit(s, <<"u4E07">>, Digits \cup {",", "."}, 10000),
                        Unit(s, <<"u5343">>, Digits \cup {","}, 1000),
                        Plain(s, Search(Grp(1, Plus(In(Digits \cup {","}))), s))>>)
    IN  IF amount_str = <<>> THEN None ELSE Amount(half(Strip(amount_str)))

\* _parse_detail_page(bid, soup), text being soup.get_text(): each field that
\* the bid does not have yet is looked for in the text. The result is
\* [bid |-> the bid as the call leaves it, raised |-> the exception that left
\* the call, or ""].
_parse_detail_page(bid, text, tdy) ==
    LET normalized_text ==
            [i \in 1..Len(text) |->
                CASE text[i] = "uFF0C" -> "," [] text[i] = "uFF1A" -> ":"
                  [] OTHER -> HalfChar(text[i])]
        reiwa_date == Cat(<<Reiwa, D(1, Inf), Nen, D(1, 2), Tsuki, D(1, 2), Nichi>>)
        month_day == Cat(<<D(1, 2), Tsuki, D(1, 2), Nichi>>)
        weekday == Cat(<<In({"uFF08", "("}), Star(NotIn({"uFF09", ")"})), In({"uFF09", ")"})>>)
        spaces == Star(In(Spaces))
        \* (?:～|~|から|－|ー|−|〜) and (?:から|～|~)
        dash == Words(<<<<"uFF5E">>,
        <<"~">>,
        <<"u304B", "u3089">>,
        <<"uFF0D">>,
        <<"u30FC">>,
        <<"u2212">>,
        <<"u301C">>>>)
        kara == Words(<<<<"u304B", "u3089">>,
        <<"uFF5E">>,
        <<"~">>>>)
        day_or_date == Alt(<<month_day, Cat(<<D(1, 2), Nichi>>)>>)
        date_range_patterns ==
            <<Cat(<<Grp(1, reiwa_date), weekday, spaces, dash, spaces, Grp(2, reiwa_date)>>),
              Cat(<<Grp(1, reiwa_date), spaces, dash, spaces, Grp(2, reiwa_date)>>),
              Cat(<<Grp(1, month_day), weekday, spaces, kara, spaces, Grp(2, day_or_date)>>),
              Cat(<<Grp(1, month_day), spaces, kara, spaces, Grp(2, day_or_date)>>)>>
        keywords_for_deadline ==
            <<<<"u53C2", "u52A0", "u8868", "u660E", "u66F8">>,
        <<"u53C2", "u52A0", "u7533", "u51FA", "u66F8">>,
        <<"u53C2", "u52A0", "u610F", "u5411", "u7533", "u51FA", "u66F8">>,
        <<"u63D0", "u51FA", "u671F", "u9593">>,
        <<"u53D7", "u4ED8", "u671F", "u9593">>,
        <<"u7533", "u8FBC", "u671F", "u9650">>,
        <<"u5FDC", "u52DF", "u671F", "u9650">>,
        <<"u63D0", "u51FA", "u671F", "u9650">>,
        <<"u53D7", "u4ED8", "u671F", "u9650">>>>
        Find(s, k) == CHOOSE i \in 1..Len(s) :
                          /\ SubSeq(s, i, i + Len(k) - 1) = k
                          /\ \A j \in 1..(i - 1) : SubSeq(s, j, j + Len(k) - 1) # k
        Window(s, pos) == SubSeq(s, pos, IF pos + 299 < Len(s) THEN pos + 299 ELSE Len(s))
        \* the end of the range: group 2, with the month of group 1 when it is
        \* a day of the month only
        MonthOf(start, f) == Group(start, f, 1) \o <<"u6708">>
        EndOf(first, second) ==
            IF Match(Cat(<<D(1, 2), Nichi, Eol>>), second).ok
            THEN MonthOf(first, Search(Cat(<<Grp(1, D(1, 2)), Tsuki>>), first)) \o second
            ELSE second
        RangeEnd(s, f) ==
            IF f.ok THEN _parse_flexible_date(EndOf(Group(s, f, 1), Group(s, f, 2)), tdy)
            ELSE None
        Near(search_text) ==
            [p \in 1..Len(date_range_patterns) |->
                RangeEnd(search_text, Search(date_range_patterns[p], search_text))]
        OfKeyword(keyword) ==
            IF Contains(normalized_text, keyword)
            THEN FirstSome(Near(Window(normalized_text, Find(normalized_text, keyword))))
            ELSE None
        deadline_pattern ==
            Cat(<<Alt(<<Lit(<<"u53C2", "u52A0", "u610F", "u5411", "u7533", "u51FA", "u66F8", "u63D0", "u51FA", "u671F", "u9650">>), Lit(<<"u53C2", "u52A0", "u8868", "u660E", "u66F8", "u306E", "u53D7", "u4ED8", "u671F", "u9593">>),
                        Lit(<<"u53C2", "u52A0", "u8868", "u660E", "u66F8", "u306A", "u3069", "u306E", "u63D0", "u51FA", "u671F", "u9593">>), Lit(<<"u53C2", "u52A0", "u7533", "u51FA", "u66F8", "u306E", "u53D7", "u4ED8">>),
                        Lit(<<"u53C2", "u52A0", "u7533", "u8FBC", "u66F8", "u63D0", "u51FA", "u671F", "u9650">>),
                        Cat(<<Lit(<<"u63D0", "u6848", "u66F8">>), Opt(In({"u985E"})), Lit(<<"u63D0", "u51FA", "u671F", "u9650">>)>>),
                        Lit(<<"u66F8", "u985E", "u63D0", "u51FA", "u671F", "u9650">>), Lit(<<"u63D0", "u51FA", "u671F", "u9650">>), Lit(<<"u63D0", "u51FA", "u671F", "u9593">>),
                        Lit(<<"u7533", "u8FBC", "u671F", "u9650">>), Lit(<<"u5FDC", "u52DF", "u671F", "u9650">>), Lit(<<"u7533", "u8ACB", "u671F", "u9650">>),
                        Lit(<<"u53D7", "u4ED8", "u671F", "u9650">>), Cat(<<Lit(<<"u7DE0", "u5207">>), Opt(In({"u65E5"}))>>)>>),
                  Opt(In({"uFF1A", ":", "u306F"})), spaces, Star(In(Spaces)),
                  Grp(1, Lazy(Dot, 1, Inf)), Alt(<<In({"\n"}), Eol>>)>>)
        \* label[：:は]?\s*[　\s]*(.+?)(?:\n|$), parse_date of group 1
        Labelled(pattern, f) ==
            IF f.ok THEN parse_date(Group(normalized_text, f, 1)) ELSE None
        Fallback(found) ==
            IF found # None THEN found
            ELSE Labelled(deadline_pattern, Search(deadline_pattern, normalized_text))
        application_end ==
            Fallback(FirstSome([k \in 1..Len(keywords_for_deadline) |->
                                   OfKeyword(keywords_for_deadline[k])]))
        start_patterns ==
            <<Cat(<<Alt(<<Lit(<<"u516C", "u544A", "u65E5">>), Cat(<<Lit(<<"u52DF", "u96C6", "u958B", "u59CB">>), Opt(In({"u65E5"}))>>),
                          Cat(<<Lit(<<"u516C", "u52DF", "u958B", "u59CB">>), Opt(In({"u65E5"}))>>), Lit(<<"u516C", "u793A", "u65E5">>),
                          Lit(<<"u63B2", "u8F09", "u65E5">>), Lit(<<"u63B2", "u793A", "u65E5">>)>>),
                    Opt(In({"uFF1A", ":", "u306F"})), spaces, Star(In(Spaces)),
                    Grp(1, Lazy(Dot, 1, Inf)), Alt(<<In({"\n"}), Eol>>)>>),
              Cat(<<Words(<<<<"u516C", "u544A">>,
        <<"u516C", "u793A">>,
        <<"u516C", "u52DF">>>>), spaces, Words(<<<<"u65E5">>,
        <<"u958B", "u59CB">>>>),
                    Opt(In({"uFF1A", ":", "u306F"})), spaces, Star(In(Spaces)),
                    Grp(1, Lazy(Dot, 1, Inf)), Alt(<<In({"\n"}), Eol>>)>>)>>
        application_start ==
            FirstSome([p \in 1..Len(start_patterns) |->
                          Labelled(start_patterns[p],
                                   Search(start_patterns[p], normalized_text))])
        period_label ==
            Words(<<<<"u5C65", "u884C", "u671F", "u9593">>,
        <<"u5951", "u7D04", "u671F", "u9593">>,
        <<"u696D", "u52D9", "u671F", "u9593">>,
        <<"u5B9F", "u65BD", "u671F", "u9593">>,
        <<"u59D4", "u8A17", "u671F", "u9593">>,
        <<"u4E8B", "u696D", "u671F", "u9593">>,
        <<"u696D", "u52D9", "u59D4", "u8A17", "u671F", "u9593">>>>)
        period_range ==
            Cat(<<period_label, Opt(In({"uFF1A", ":", "u306F"})), spaces, Star(In(Spaces)),
                  Grp(1, Lazy(Dot, 1, Inf)), dash, spaces, Grp(2, Lazy(Dot, 1, Inf)),
                  Alt(<<In({"\n"}), Eol, Lit(<<"u307E", "u3067">>)>>)>>)
        period_line ==
            Cat(<<period_label, Opt(In({"uFF1A", ":", "u306F"})), spaces, Star(In(Spaces)),
                  Grp(1, Lazy(Dot, 1, Inf)), Alt(<<In({"\n"}), Eol>>)>>)
        \* \d{4}年\d{1,2}月\d{1,2}日|令和\d+年\d{1,2}月\d{1,2}日
        any_date == Alt(<<Cat(<<D(4, 4), Nen, D(1, 2), Tsuki, D(1, 2), Nichi>>), reiwa_date>>)
        RECURSIVE FindAll(_, _)
        FindAll(s, i) ==
            LET Rest(f) == IF f.ok THEN <<Group0(s, f)>> \o FindAll(s, f.e)
                           ELSE FindAll(s, i + 1)
            IN  IF i > Len(s) THEN <<>> ELSE Rest(MatchAt(any_date, s, i))
        \* <<whether the pattern ends the loop, period_start, period_end>>, an
        \* assignment being <<value>> and no assignment <<>>
        Both(start_parsed, end_parsed) ==
            IF IsRaised(start_parsed) THEN <<TRUE, start_parsed, <<>>>>
            ELSE IF IsRaised(end_parsed) THEN <<TRUE, <<>>, end_parsed>>
            ELSE <<TRUE, IF start_parsed # None THEN <<start_parsed>> ELSE <<>>,
                   IF end_parsed # None THEN <<end_parsed>> ELSE <<>>>>
        Dates(dates) ==
            IF Len(dates) >= 2 THEN <<TRUE, <<parse_date(dates[1])>>, <<parse_date(dates[2])>>>>
            ELSE IF Len(dates) = 1 THEN <<TRUE, <<>>, <<parse_date(dates[1])>>>>
            ELSE <<FALSE, <<>>, <<>>>>
        Line(f) == IF f.ok THEN Dates(FindAll(Group(normalized_text, f, 1), 1))
                   ELSE <<FALSE, <<>>, <<>>>>
        Period(f) ==
            IF f.ok THEN Both(parse_date(Group(normalized_text, f, 1)),
                              parse_date(Group(normalized_text, f, 2)))
            ELSE Line(Search(period_line, normalized_text))
        amount_patterns ==
            <<Cat(<<Alt(<<Lit(<<"u63D0", "u6848", "u9650", "u5EA6", "u4FA1", "u683C">>), Lit(<<"u5951", "u7D04", "u9650", "u5EA6", "u91D1", "u984D">>),
                          Lit(<<"u59D4", "u8A17", "u5951", "u7D04", "u306E", "u9650", "u5EA6", "u984D">>), Lit(<<"u5951", "u7D04", "u306E", "u9650", "u5EA6", "u984D">>), Lit(<<"u9650", "u5EA6", "u984D">>),
                          Lit(<<"u4E0A", "u9650", "u984D">>), Lit(<<"u4E0A", "u9650", "u91D1", "u984D">>), Lit(<<"u4E88", "u5B9A", "u4FA1", "u683C">>),
                          Lit(<<"u59D4", "u8A17", "u6599">>), Lit(<<"u4E88", "u7B97", "u984D">>), Lit(<<"u53C2", "u8003", "u4FA1", "u683C">>),
                          Cat(<<Lit(<<"u5951", "u7D04", "u4E0A", "u9650">>), Opt(In({"u984D"}))>>)>>),
                    Opt(In({"uFF1A", ":", "u306F"})), spaces, Star(In(Spaces)),
                    Grp(1, Plus(In(Digits \cup {","}))), spaces, In({"u5186"})>>),
              Cat(<<Grp(1, Plus(In(Digits \cup {","}))), spaces, In({"u5186"}), spaces,
                    Words(<<<<"u4EE5", "u5185">>,
        <<"u3092", "u4E0A", "u9650">>,
        <<"u304C", "u4E0A", "u9650">>,
        <<"uFF08", "u7A0E", "u8FBC">>,
        <<"uFF08", "u6D88", "u8CBB", "u7A0E">>>>)>>)>>
        \* parse_amount(group 1 + '円'); an amount of 0 counts as none
        Truthy(parsed) == IF parsed = Some(0) THEN None ELSE parsed
        Priced(f) ==
            IF f.ok THEN Truthy(parse_amount(Group(normalized_text, f, 1) \o <<"u5186">>))
            ELSE None
        max_amount ==
            FirstSome([p \in 1..Len(amount_patterns) |->
                          Priced(Search(amount_patterns[p], normalized_text))])
        \* the four blocks in order, on the outcome so far
        Set(o, field, found) ==
            IF o.raised # "" \/ found = None THEN o
            ELSE IF IsRaised(found) THEN [o EXCEPT !.raised = found[1]]
            ELSE [o EXCEPT !.bid = [@ EXCEPT ![field] = found]]
        Assign(o, field, assigned) ==
            IF assigned = <<>> THEN o
            ELSE IF o.raised = "" /\ assigned[1] = None
                 THEN [o EXCEPT !.bid = [@ EXCEPT ![field] = None]]
            ELSE Set(o, field, assigned[1])
        Periods(o, p) == Assign(Assign(o, "period_start", p[2]), "period_end", p[3])
        Deadline(o) ==
            IF o.bid.application_end = None THEN Set(o, "application_end", application_end)
            ELSE o
        Start(o) ==
            IF o.raised = "" /\ o.bid.application_start = None
            THEN Set(o, "application_start", application_start) ELSE o
        Term(o) ==
            IF o.raised = "" /\ (o.bid.period_start = None \/ o.bid.period_end = None)
            THEN Periods(o, Period(Search(period_range, normalized_text))) ELSE o
        Price(o) ==
            IF o.raised = "" /\ o.bid.max_amount \in {None, Some(0)}
            THEN Set(o, "max_amount", max_amount) ELSE o
    IN  Price(Term(Start(Deadline([bid |-> bid, raised |-> ""]))))

(***************************************************************************)
(* The parsers by themselves: one text, and the parsers of its kind        *)
(* applied to it                                                           *)
(***************************************************************************)
\* the days the parsers run on
ParseDays == {Date(2025, 1, 10), Date(2024, 6, 15), Date(2024, 12, 31)}

\* the texts of the model are described by a note: kind and form say how the
\* text is built, n, m, d and sep, key what it is built from
Note(kind, form, n, m, d, sep, key) == [kind |-> kind, form |-> form, n |-> n, m |-> m, d |-> d, sep |-> sep, key |-> key]

ParsedDays == {1, 15, 29, 31}

ParsedReiwa == {6, 7}

ReiwaMonths == {1, 2, 12, 13}

ReiwaForms == {"reiwa", "paren", "wide", "wideparen", "before", "after", "gregorian", "slash", "huge", "deadline"}

\* '0123456789' to '０１２３４５６７８９'
Wide(s) ==
    [i \in 1..Len(s) |->
        IF s[i] \in AsciiDigits
        THEN CHOOSE c \in FullDigits : DigitVal(c) = DigitVal(s[i]) ELSE s[i]]

\* M月D日; 令和N年M月D日, with （YYYY年） after the year, in full-width digits,
\* after or before a Gregorian date, with a year no C int holds, in a title
\* with 締切; YYYY年M月D日 and YYYY/M/D
DateText(form, n, m, d) ==
    LET md == NatToStr(m) \o <<"u6708">> \o NatToStr(d) \o <<"u65E5">>
        reiwa == <<"u4EE4", "u548C">> \o NatToStr(n) \o <<"u5E74">>
        paren == <<"uFF08">> \o NatToStr(n + 2018) \o <<"u5E74", "uFF09">>
    IN  CASE form = "yearless" -> md
          [] form = "reiwa" -> reiwa \o md
          [] form = "paren" -> reiwa \o paren \o md
          [] form = "wide" -> Wide(reiwa \o md)
          [] form = "wideparen" -> Wide(reiwa \o paren \o md)
          [] form = "before" -> <<"2", "0", "2", "4", "u5E74", "1", "2", "u6708", "1", "u65E5", " ">> \o reiwa \o md
          [] form = "after" -> reiwa \o md \o <<" ", "2", "0", "2", "4", "u5E74", "1", "2", "u6708", "1", "u65E5">>
          [] form = "gregorian" -> NatToStr(n + 2018) \o <<"u5E74">> \o md
          [] form = "slash" -> NatToStr(n + 2018) \o <<"/">> \o NatToStr(m) \o <<"/">> \o NatToStr(d)
          [] form = "huge" -> <<"u4EE4", "u548C", "9", "9", "9", "9", "9", "9", "9", "9", "9", "9", "9", "u5E74">> \o md
          [] form = "deadline" -> <<"u5E83", "u5831", "u696D", "u52D9", "u3010">> \o reiwa \o md \o <<"u7DE0", "u5207", "u3011">>

DateNotes ==
    {Note("date", "yearless", 0, m, d, 0, 0) : m \in 1..13, d \in ParsedDays}
    \cup {Note("date", form, n, m, d, 0, 0) :
            form \in ReiwaForms, n \in ParsedReiwa, m \in ReiwaMonths, d \in ParsedDays \ {15}}

\* the literals of the amounts: the text, and the number it writes as num/den
AmountLiterals ==
    <<[text |-> <<"3">>, num |-> 3, den |-> 1],
      [text |-> <<"3", "0", "0">>, num |-> 300, den |-> 1],
      [text |-> <<"7", ",", "8", "0", "0">>, num |-> 7800, den |-> 1],
      [text |-> <<"5", "0", ",", "0", "0", "0">>, num |-> 50000, den |-> 1],
      [text |-> <<"1", ".", "5">>, num |-> 15, den |-> 10],
      [text |-> <<"0", ".", "5">>, num |-> 5, den |-> 10],
      [text |-> <<"1", "2", ".", "7", "5">>, num |-> 1275, den |-> 100],
      [text |-> <<"1", ",", "2", "3", "4", ".", "5">>, num |-> 12345, den |-> 10],
      [text |-> <<"uFF13", "uFF10", "uFF10">>, num |-> 300, den |-> 1]>>

\* 億, 万, 千 and no unit: the character and the factor
AmountUnits ==
    [oku |-> [text |-> <<"u5104">>, factor |-> 100000000],
     man |-> [text |-> <<"u4E07">>, factor |-> 10000],
     sen |-> [text |-> <<"u5343">>, factor |-> 1000],
     yen |-> [text |-> <<>>, factor |-> 1]]

\* texts that are no amount: no digit, or a literal that is no number
MalformedAmounts ==
    <<<<"1", ".", "2", ".", "3", "u5104">>,
        <<"1", ".", ".", "5", "u4E07">>,
        <<",", "u5104">>,
        <<".", "u4E07">>,
        <<",", "u5186">>,
        <<",">>,
        <<".">>,
        <<"u672A", "u5B9A">>,
        <<>>,
        <<"u4E0A", "u9650", "u984D", "u306F", "u5225", "u9014", "u901A", "u77E5", "u3059", "u308B">>>>

\* the largest amount of the model: the products stay below 2^31
MaxAmount == 2000000000

AmountText(form, n) ==
    IF form = "malformed" THEN MalformedAmounts[n]
    ELSE AmountLiterals[n].text \o AmountUnits[form].text \o <<"u5186">>

AmountNotes ==
    {a \in {Note("amount", u, n, 0, 0, 0, 0) :
                u \in DOMAIN AmountUnits, n \in DOMAIN AmountLiterals} :
        (AmountLiterals[a.n].num \div AmountLiterals[a.n].den + 1)
            <= MaxAmount \div AmountUnits[a.form].factor}
    \cup {Note("amount", "malformed", n, 0, 0, 0, 0) : n \in DOMAIN MalformedAmounts}

\* the labels of a deadline on a page, the third one no label of the fallback
PageKeywords == <<<<"u53C2", "u52A0", "u8868", "u660E", "u66F8", "u306E", "u53D7", "u4ED8", "u671F", "u9593", "u3000">>,
        <<"u63D0", "u51FA", "u671F", "u9650", "uFF1A">>,
        <<"u53D7", "u4ED8", "u671F", "u9593", " ">>>>

\* から, ～ (U+FF5E), 〜 (U+301C), ~
PageSeparators == <<<<"u304B", "u3089">>,
        <<"uFF5E">>,
        <<"u301C">>,
        <<"~">>>>

RangeForms == {"reiwa", "reiwa_wd", "gregorian", "yearless", "yearless_wd", "dayonly", "dayonly_wd"}

\* the range starts on the 10th of month 1, and ends on the 24th of month m
RangeStart == [m |-> 1, d |-> 10]

RangeLast == [d |-> 24]

\* other pages: every field labelled; a page with dates of the past; a period
\* as a line of dates; a start date with a year no C int holds
OtherPages ==
    <<<<"u516C", "u544A", "u65E5", "uFF1A", "u4EE4", "u548C", "7", "u5E74", "1", "u6708", "6", "u65E5", "\n">>
         \o <<"u63D0", "u51FA", "u671F", "u9650", "uFF1A", "u4EE4", "u548C", "7", "u5E74", "1", "u6708", "2", "4", "u65E5", "\n">>
         \o <<"u5C65", "u884C", "u671F", "u9593", "uFF1A", "u4EE4", "u548C", "7", "u5E74", "4", "u6708", "1", "u65E5", "uFF5E", "u4EE4", "u548C", "8", "u5E74", "3", "u6708", "3", "1", "u65E5", "\n">>
         \o <<"u4E0A", "u9650", "u984D", "uFF1A", "5", ",", "0", "0", "0", ",", "0", "0", "0", "u5186">>,
      <<"u63B2", "u8F09", "u65E5", "uFF1A", "2", "0", "2", "5", "-", "0", "1", "-", "0", "6", "\n">>
         \o <<"u7DE0", "u5207", " ", "1", "u6708", "2", "4", "u65E5", "\n">>
         \o <<"u696D", "u52D9", "u671F", "u9593", "uFF1A", "2", "0", "2", "5", "u5E74", "4", "u6708", "1", "u65E5", " ", "2", "0", "2", "6", "u5E74", "3", "u6708", "3", "1", "u65E5", "\n">>
         \o <<"u4E88", "u5B9A", "u4FA1", "u683C", " ", "0", "u5186">>,
      <<"u63D0", "u51FA", "u671F", "u9650", "uFF1A", "u4EE4", "u548C", "7", "u5E74", "1", "u6708", "2", "4", "u65E5", "\n">>
         \o <<"u516C", "u793A", "u65E5", "uFF1A", "u4EE4", "u548C", "9", "9", "9", "9", "9", "9", "9", "9", "9", "9", "9", "u5E74", "1", "u6708", "6", "u65E5", "\n">>
         \o <<"u4E0A", "u9650", "u984D", "uFF1A", "5", ",", "0", "0", "0", "u5186">>,
      <<"u52DF", "u96C6", "u8981", "u9805", "u3092", "u3054", "u89A7", "u304F", "u3060", "u3055", "u3044">>>>

PageText(form, m, sep, key) ==
    LET wd == <<"uFF08", "u91D1", "uFF09">>
        x == NatToStr(RangeStart.m) \o <<"u6708">> \o NatToStr(RangeStart.d) \o <<"u65E5">>
        last == NatToStr(RangeLast.d) \o <<"u65E5">>
        y == NatToStr(m) \o <<"u6708">> \o last
        Between(a, b) == PageKeywords[key] \o a \o PageSeparators[sep] \o b \o <<"u307E", "u3067">>
    IN  CASE form = "reiwa" -> Between(<<"u4EE4", "u548C", "7", "u5E74">> \o x, <<"u4EE4", "u548C", "7", "u5E74">> \o y)
          [] form = "reiwa_wd" -> Between(<<"u4EE4", "u548C", "7", "u5E74">> \o x \o wd, <<"u4EE4", "u548C", "7", "u5E74">> \o y \o wd)
          [] form = "gregorian" -> Between(<<"2", "0", "2", "5", "u5E74">> \o x, <<"2", "0", "2", "5", "u5E74">> \o y)
          [] form = "yearless" -> Between(x, y)
          [] form = "yearless_wd" -> Between(x \o wd, y \o wd)
          [] form = "dayonly" -> Between(x, last)
          [] form = "dayonly_wd" -> Between(x \o wd, last \o wd)
          [] form = "other" -> OtherPages[key]

PageNotes ==
    {Note("page", form, 7, m, RangeLast.d, sep, key) :
        form \in RangeForms \ {"dayonly", "dayonly_wd"}, m \in {1, 2},
        sep \in DOMAIN PageSeparators, key \in DOMAIN PageKeywords}
    \cup {Note("page", form, 7, RangeStart.m, RangeLast.d, sep, key) :
            form \in {"dayonly", "dayonly_wd"},
            sep \in DOMAIN PageSeparators, key \in DOMAIN PageKeywords}
    \cup {Note("page", "other", 0, 0, 0, 0, key) : key \in DOMAIN OtherPages}

TextOf(a) ==
    CASE a.kind = "date" -> DateText(a.form, a.n, a.m, a.d)
      [] a.kind = "amount" -> AmountText(a.form, a.n)
      [] a.kind = "page" -> PageText(a.form, a.m, a.sep, a.key)

\* the bid of the page: as the listing gave it, with no dates and no amount
PageBid == BidInfo(TitleKoho, SCRAPERS[1], "url1", None, None, None, None)

InitParse ==
    /\ today \in ParseDays
    /\ \E a \in DateNotes \cup AmountNotes \cup PageNotes :
          probe = [stage |-> "text", note |-> a, text |-> TextOf(a),
                   date |-> None, flexible |-> None, deadline |-> None,
                   amount |-> None, page |-> [bid |-> PageBid, raised |-> ""]]
    /\ store = {}
    /\ pc = [s \in Sessions |-> "idle"]
    /\ run = [s \in Sessions |-> IdleRun]
    /\ txn = [s \in Sessions |-> NoTxn]
    /\ nextId = 1
    /\ now = 1
    /\ high = 0
    /\ calls = <<>>

\* parse_date(text)
ParseDate ==
    /\ probe.stage = "text" /\ probe.note.kind = "date"
    /\ probe' = [probe EXCEPT !.stage = "date", !.date = parse_date(probe.text)]
    /\ UNCHANGED <<today, store, pc, run, txn, nextId, now, high, calls>>

\* _parse_flexible_date(text)
ParseFlexibleDate ==
    /\ probe.stage = "date"
    /\ probe' = [probe EXCEPT !.stage = "flexible",
                              !.flexible = _parse_flexible_date(probe.text, today)]
    /\ UNCHANGED <<today, store, pc, run, txn, nextId, now, high, calls>>

\* extract_deadline_from_title(text)
ExtractDeadline ==
    /\ probe.stage = "flexible"
    /\ probe' = [probe EXCEPT !.stage = "deadline",
                              !.deadline = extract_deadline_from_title(probe.text, today)]
    /\ UNCHANGED <<today, store, pc, run, txn, nextId, now, high, calls>>

\* parse_amount(text)
ParseAmount ==
    /\ probe.stage = "text" /\ probe.note.kind = "amount"
    /\ probe' = [probe EXCEPT !.stage = "amount", !.amount = parse_amount(probe.text)]
    /\ UNCHANGED <<today, store, pc, run, txn, nextId, now, high, calls>>

\* _parse_detail_page(bid, soup), the text of soup being the text
ParseDetailPage ==
    /\ probe.stage = "text" /\ probe.note.kind = "page"
    /\ probe' = [probe EXCEPT !.stage = "page",
                              !.page = _parse_detail_page(PageBid, probe.text, today)]
    /\ UNCHANGED <<today, store, pc, run, txn, nextId, now, high, calls>>

NextParse == ParseDate \/ ParseFlexibleDate \/ ExtractDeadline \/ ParseAmount \/ ParseDetailPage

SpecParse == InitParse /\ [][NextParse]_vars

(***************************************************************************)
(* Properties of the parsers                                               *)
(***************************************************************************)
\* the year the claim gives a year-less date of month m
InferredYear(tdy, m) == IF m - tdy.m > 2 THEN tdy.y - 1 ELSE tdy.y

C15WitnessBoundary ==
    /\ probe.note.kind = "date" /\ probe.note.form = "yearless"
    /\ probe.stage = "flexible"
    /\ probe.note.m - today.m = 2
    /\ probe.flexible = Some(Date(today.y, probe.note.m, probe.note.d))

C15WitnessPassed ==
    /\ probe.note.kind = "date" /\ probe.note.form = "yearless"
    /\ probe.stage = "flexible"
    /\ probe.note.m < today.m
    /\ probe.flexible = Some(Date(today.y, probe.note.m, probe.note.d))

\* C16: parse_date reads 令和N年M月D日 as the day D of month M of year N + 2018
\* when that year has such a day: also with （YYYY年） between 年 and the month,
\* also in full-width digits, and also when a Gregorian date stands before or
\* after it in the text.
C16ReiwaDate ==
    (/\ probe.note.kind = "date" /\ probe.stage # "text"
     /\ probe.note.form \in {"reiwa", "paren", "wide", "wideparen", "before", "after", "deadline"}
     /\ ValidDate(probe.note.n + 2018, probe.note.m, probe.note.d))
    => probe.date = Some(Date(probe.note.n + 2018, probe.note.m, probe.note.d))

\* a Reiwa date after a Gregorian date was read, and not the Gregorian date
C16Witness ==
    /\ probe.note.kind = "date" /\ probe.stage = "date"
    /\ probe.note.form = "before"
    /\ probe.date = Some(Date(probe.note.n + 2018, probe.note.m, probe.note.d))
    /\ probe.date # Some(Date(2024, 12, 1))

\* a Reiwa date in full-width digits with the Gregorian year in brackets was read
C16WitnessWide ==
    /\ probe.note.kind = "date" /\ probe.stage = "date"
    /\ probe.note.form = "wideparen"
    /\ probe.date = Some(Date(probe.note.n + 2018, probe.note.m, probe.note.d))

\* C17: parse_date, _parse_flexible_date and extract_deadline_from_title give
\* a date or no date for every text and never raise; a text with one date
\* expression whose month and day are no day of its year gives no date.
C17NeverRaises ==
    /\ probe.note.kind = "date"
       => ~IsRaised(probe.date) /\ ~IsRaised(probe.flexible) /\ ~IsRaised(probe.deadline)
    /\ (/\ probe.note.kind = "date" /\ probe.stage = "deadline"
        /\ probe.note.form \in {"reiwa", "paren", "wide", "wideparen", "gregorian", "slash", "deadline"}
        /\ ~ValidDate(probe.note.n + 2018, probe.note.m, probe.note.d))
       => probe.date = None /\ probe.flexible = None /\ probe.deadline = None
    /\ (/\ probe.note.kind = "date" /\ probe.stage = "deadline"
        /\ probe.note.form = "yearless"
        /\ ~ValidDate(InferredYear(today, probe.note.m), probe.note.m, probe.note.d))
       => probe.date = None /\ probe.flexible = None

\* the part of C17 about dates that do not exist, which holds: one date
\* expression with an impossible month or day gives no date
C17InvalidIsNoDate ==
    (/\ probe.note.kind = "date" /\ probe.stage = "deadline"
     /\ probe.note.form \in {"reiwa", "paren", "wide", "wideparen", "gregorian", "slash", "deadline"}
     /\ ~ValidDate(probe.note.n + 2018, probe.note.m, probe.note.d))
    => probe.date = None /\ probe.flexible = None /\ probe.deadline = None

\* literal x unit, decimals truncated toward zero
AmountOf(literal, unit) == (literal.num * unit.factor) \div literal.den

\* C18: parse_amount gives literal x unit for the literal before the unit,
\* commas removed and decimals truncated: x100,000,000 for 億, x10,000 for 万,
\* x1,000 for 千, x1 for plain yen, for every literal and unit of the inputs.
C18LiteralTimesUnit ==
    (probe.note.kind = "amount" /\ probe.stage = "amount" /\ probe.note.form # "malformed")
    => probe.amount = Some(AmountOf(AmountLiterals[probe.note.n],
                                    AmountUnits[probe.note.form]))

\* the four amounts the claim names, which parse_amount gives as claimed:
\* 1.5億円, 7,800千円, 300万円, 50,000円
C18NamedAmounts ==
    (probe.note.kind = "amount" /\ probe.stage = "amount"
        /\ probe.note.form # "malformed"
        /\ <<probe.note.form, AmountLiterals[probe.note.n].text>> \in
              {<<"oku", <<"1", ".", "5">>>>, <<"sen", <<"7", ",", "8", "0", "0">>>>, <<"man", <<"3", "0", "0">>>>,
               <<"yen", <<"5", "0", ",", "0", "0", "0">>>>})
    => probe.amount = Some(AmountOf(AmountLiterals[probe.note.n],
                                    AmountUnits[probe.note.form]))

\* C19: parse_amount gives an amount or no amount for every text and never
\* raises; a text with no digit and a text with a malformed literal give no
\* amount.
C19NeverRaises ==
    /\ probe.note.kind = "amount" => ~IsRaised(probe.amount)
    /\ (probe.note.kind = "amount" /\ probe.stage = "amount"
            /\ probe.note.form = "malformed")
       => probe.amount = None

\* the end date Y of the range of a page, the year of a year-less Y being the
\* one _parse_flexible_date infers; a day of month only has the month of X
RangeEndOf(a, tdy) ==
    CASE a.form \in {"reiwa", "reiwa_wd"} -> MkDate(a.n + 2018, a.m, a.d)
      [] a.form = "gregorian" -> MkDate(a.n + 2018, a.m, a.d)
      [] a.form \in {"yearless", "yearless_wd"} -> MkDate(InferredYear(tdy, a.m), a.m, a.d)
      [] a.form \in {"dayonly", "dayonly_wd"} ->
           MkDate(InferredYear(tdy, RangeStart.m), RangeStart.m, a.d)

\* C20: for a page with a deadline keyword followed by a date range X sep Y,
\* _parse_detail_page sets application_end to the end date Y and never to X,
\* for Reiwa, Gregorian and year-less ranges and for the separators から, ～,
\* 〜 and ~; a Y that is a day of month only takes its month from X.
C20RangeEnd ==
    (probe.note.kind = "page" /\ probe.stage = "page" /\ probe.note.form \in RangeForms)
    => /\ probe.page.raised = ""
       /\ probe.page.bid.application_end = RangeEndOf(probe.note, today)

\* the part of C20 that holds: Reiwa ranges with every separator, and
\* year-less ranges with から, ～ (U+FF5E) and ~
C20ReiwaRangeEnd ==
    (/\ probe.note.kind = "page" /\ probe.stage = "page"
     /\ \/ probe.note.form \in {"reiwa", "reiwa_wd"}
        \/ /\ probe.note.form \in {"yearless", "yearless_wd", "dayonly", "dayonly_wd"}
           /\ PageSeparators[probe.note.sep] # <<"u301C">>)
    => /\ probe.page.raised = ""
       /\ probe.page.bid.application_end = RangeEndOf(probe.note, today)

(***************************************************************************)
(* The detail page of a candidate whose list page gave some of the fields  *)
(***************************************************************************)
\* what the list page may have given for each field that the detail page can fill
ListedFields ==
    [application_end : {None, Some(Date(2025, 3, 3))},
     application_start : {None, Some(Date(2024, 12, 20))},
     period_start : {None, Some(Date(2025, 5, 1))},
     period_end : {None, Some(Date(2026, 2, 28))},
     max_amount : {None, Some(0), Some(900000)}]

DetailFields == {"application_end", "application_start", "period_start", "period_end", "max_amount"}

\* the candidate of the list page with the fields f
ListedBid(f) ==
    [BidInfo(TitleKoho, SCRAPERS[1], "url1", None, f.max_amount,
             f.application_start, f.application_end)
        EXCEPT !.period_start = f.period_start, !.period_end = f.period_end]

\* the pages of OtherPages, a page whose period has an end date only, and a
\* page whose period is one date
DetailPages ==
    OtherPages \o
    <<<<"u63D0", "u51FA", "u671F", "u9650", "uFF1A", "u4EE4", "u548C", "7", "u5E74", "1", "u6708", "2", "4", "u65E5">> \o <<"\n">> \o <<"u5C65", "u884C", "u671F", "u9593", "uFF1A", "u5951", "u7D04", "u7DE0", "u7D50", "u65E5", "u304B", "u3089", "u4EE4", "u548C", "8", "u5E74", "3", "u6708", "3", "1", "u65E5", "u307E", "u3067">>,
      <<"u5951", "u7D04", "u671F", "u9593", "uFF1A", "u4EE4", "u548C", "8", "u5E74", "3", "u6708", "3", "1", "u65E5">> \o <<"\n">> \o <<"u59D4", "u8A17", "u6599", "uFF1A", "1", ",", "2", "0", "0", ",", "0", "0", "0", "u5186">>>>

InitPage ==
    /\ today \in ParseDays
    /\ \E f \in ListedFields, k \in DOMAIN DetailPages :
          probe = [stage |-> "listed", bid |-> ListedBid(f), text |-> DetailPages[k],
                   page |-> [bid |-> ListedBid(f), raised |-> ""]]
    /\ store = {}
    /\ pc = [s \in Sessions |-> "idle"]
    /\ run = [s \in Sessions |-> IdleRun]
    /\ txn = [s \in Sessions |-> NoTxn]
    /\ nextId = 1
    /\ now = 1
    /\ high = 0
    /\ calls = <<>>

\* _parse_detail_page(bid, soup) on the candidate of the list page
ParseListed ==
    /\ probe.stage = "listed"
    /\ probe' = [probe EXCEPT !.stage = "parsed",
                              !.page = _parse_detail_page(probe.bid, probe.text, today)]
    /\ UNCHANGED <<today, store, pc, run, txn, nextId, now, high, calls>>

NextPage == ParseListed

SpecPage == InitPage /\ [][NextPage]_vars

\* C21: _parse_detail_page changes no field that had a value before the call:
\* application_end, application_start, period_start, period_end and
\* max_amount keep what the list page gave, also when only one of
\* period_start and period_end had a value; only empty fields are filled.
C21PopulatedKept ==
    probe.stage = "parsed"
    => \A f \in DetailFields :
          probe.bid[f] # None => probe.page.bid[f] = probe.bid[f]

\* the part of C21 that holds: the two application dates and an amount other
\* than 0 are kept, and so are the period dates when the list page gave both
C21DatesKept ==
    probe.stage = "parsed"
    => /\ \A f \in {"application_end", "application_start"} :
             probe.bid[f] # None => probe.page.bid[f] = probe.bid[f]
       /\ probe.bid.max_amount \notin {None, Some(0)}
             => probe.page.bid.max_amount = probe.bid.max_amount
       /\ (probe.bid.period_start # None /\ probe.bid.period_end # None)
             => /\ probe.page.bid.period_start = probe.bid.period_start
                /\ probe.page.bid.period_end = probe.bid.period_end

(***************************************************************************)
(* Properties of the runs: failures of a scraper and of the caller's input *)
(***************************************************************************)
\* the results of the scrapers that did not fail, in the order of SCRAPERS
Succeeded(results) == SelectSeq(results, LAMBDA res : ~res.error)

RECURSIVE SumSeq(_)
SumSeq(seq) == IF seq = <<>> THEN 0 ELSE Head(seq) + SumSeq(Tail(seq))

C22OthersSaved ==
    [][\A s \in Sessions :
          (run[s].kind = "all" /\ run[s].outcome # "returned"
              /\ run'[s].outcome = "returned")
          => \A k \in 1..Len(run[s].results) :
                \A i \in 1..Len(run[s].results[k].filtered_bids) :
                    \/ Unwanted({run[s].results[k].filtered_bids[i]}) # {}
                    \/ Existing(store', run[s].results[k].filtered_bids[i]) # {}]_vars

\* C23: run_single_scraper with a name that is not in the registry fails with
\* an error to the caller; no scraper is run for it and the store is as it was
\* before the call.
C23UnknownNameFails ==
    [][\A s \in Sessions :
          (run'[s] # run[s] /\ run'[s].kind = "single"
              /\ run'[s].municipality \notin MunicipalityNames)
          => /\ run'[s].outcome = "raised"
             /\ pc'[s] = "idle"
             /\ store' = store]_vars

\* the call with an unknown name has failed, and the rows stored before it
\* are still there
C23Witness ==
    /\ run["manual"].kind = "single"
    /\ run["manual"].municipality = UnknownName
    /\ run["manual"].outcome = "raised"
    /\ pc["manual"] = "idle"
    /\ store # {}

\* C24: a call of run_single_scraper for a registered municipality whose
\* scraper raises returns a summary that reports the failure; it does not
\* raise to the caller.
C24ScraperFailureReported ==
    [][\A s \in Sessions :
          (pc[s] = "scrape" /\ run[s].kind = "single"
              /\ run[s].municipality \in MunicipalityNames /\ run'[s] # run[s])
          => run'[s].outcome # "raised"]_vars

(***************************************************************************)
(* api/routes.py: GET /bids, a reader beside one refresh                   *)
(***************************************************************************)
\* per_page of a request that does not give it
PerPage == 20

\* the parameters of a request: none, a municipality, or the other filters
NoQuery ==
    [municipality |-> None, category |-> None, status |-> None, search |-> None,
     min_amount |-> None, max_amount |-> None]

\* search=sns, status=open, min_amount=0, max_amount=1000000
QueryFiltered ==
    [NoQuery EXCEPT !.status = Some(StatusOpen), !.search = Some(<<"s", "n", "s">>),
                    !.min_amount = Some(0), !.max_amount = Some(1000000)]

Queries ==
    {NoQuery, QueryFiltered}
        \cup {[NoQuery EXCEPT !.municipality = Some(m)] : m \in MunicipalityNames}

\* the where clauses of get_bids; a comparison with a NULL column is not true
Selected(rows, q) ==
    {r \in rows :
        /\ (q.municipality # None /\ Val(q.municipality) # "")
              => r.municipality = Val(q.municipality)
        /\ (q.category # None /\ Val(q.category) # "") => r.category = q.category
        /\ (q.status # None /\ Val(q.status) # "") => r.status = Val(q.status)
        /\ (q.search # None /\ Val(q.search) # <<>>)
              => Contains(Lower(r.title), Lower(Val(q.search)))
        /\ q.min_amount # None
              => (r.max_amount # None /\ Val(r.max_amount) >= Val(q.min_amount))
        /\ q.max_amount # None
              => (r.max_amount # None /\ Val(r.max_amount) <= Val(q.max_amount))}

\* ORDER BY application_end DESC NULLS FIRST, created_at DESC (rows of equal
\* keys, which the database returns in any order, by id)
Precedes(a, b) ==
    IF a.application_end # b.application_end
    THEN \/ a.application_end = None
         \/ b.application_end # None
               /\ DateLt(Val(b.application_end), Val(a.application_end))
    ELSE a.created_at > b.created_at \/ (a.created_at = b.created_at /\ a.id < b.id)

Ordered(rows) ==
    [i \in 1..Cardinality(rows) |->
        CHOOSE r \in rows : Cardinality({q \in rows : Precedes(q, r)}) = i - 1]

\* get_bids: the BidListResponse of the committed rows
get_bids(rows, q, page, per_page) ==
    LET Total == Cardinality(Selected(rows, q))
        Last == IF page * per_page < Total THEN page * per_page ELSE Total
    IN  [items |-> SubSeq(Ordered(Selected(rows, q)), (page - 1) * per_page + 1, Last),
         total |-> Total, page |-> page, per_page |-> per_page,
         pages |-> (Total + per_page - 1) \div per_page]

\* the most candidates the scrapers of the refresh return, and the most
\* requests of the reader
MaxReadBids == 2

MaxReads == 1

\* a record that an earlier run stored, and the rows before the refresh
InitRead ==
    /\ today \in RunDays
    /\ \E b \in Candidates(today) : store = {NewBid(b, 1, 1, 1)}
    /\ pc = [s \in Sessions |-> "idle"]
    /\ run = [s \in Sessions |-> IdleRun]
    /\ txn = [s \in Sessions |-> NoTxn]
    /\ nextId = 2
    /\ now = 2
    /\ high = 1
    /\ calls = <<>>
    /\ probe = [before |-> store, reads |-> <<>>]

\* no refresh has been started
NoRefreshYet == \A s \in Sessions : run[s].kind = "none"

\* GET /bids in a session of its own: it reads the committed rows, whatever a
\* run is doing; kept with it is the refresh that was under way
GetBids(q) ==
    /\ Len(probe.reads) < MaxReads
    /\ probe' = [probe EXCEPT !.reads =
                    Append(@, [query |-> q,
                               response |-> get_bids(store, q, 1, PerPage),
                               refresh |-> {[kind |-> run[s].kind,
                                             municipality |-> run[s].municipality] :
                                               s \in {t \in Sessions : pc[t] # "idle"}}])]
    /\ UNCHANGED <<today, store, pc, run, txn, nextId, now, high, calls>>

NextRead ==
    \/ \E s \in Sessions : NoRefreshYet /\ StartRunAll(s)
    \/ \E s \in Sessions : ScrapeAll(s, MaxReadBids)
    \/ \E s \in Sessions : Process(s)
    \/ \E m \in MunicipalityNames \cup {UnknownName} :
          NoRefreshYet /\ StartRunSingle("manual", m)
    \/ \E s \in Sessions : ScrapeSingle(s, MaxReadBids)
    \/ \E s \in Sessions : Cleanup(s)
    \/ \E s \in Sessions : ReadMax(s)
    \/ \E s \in Sessions : SaveRow(s)
    \/ \E s \in Sessions : SaveCommit(s)
    \/ \E q \in Queries : GetBids(q)

SpecRead == InitRead /\ [][NextRead]_vars

\* a request for the scope of the refresh that was under way when it was made
OfScope(read) ==
    \E f \in read.refresh :
        \/ f.kind = "all"
        \/ f.kind = "single" /\ read.query.municipality = Some(f.municipality)

\* C25: a reader beside a refresh gets the scope as it was before the refresh
\* or as it is after repopulation, never the cleared or partly repopulated
\* rows in between.
C25RefreshAtomic ==
    \A s \in Sessions :
        (run[s].kind \in {"all", "single"} /\ run[s].outcome = "returned")
        => \A i \in 1..Len(probe.reads) :
              OfScope(probe.reads[i])
              => \/ probe.reads[i].response
                       = get_bids(probe.before, probe.reads[i].query, 1, PerPage)
                 \/ probe.reads[i].response
                       = get_bids(store, probe.reads[i].query, 1, PerPage)

\* the rows of the municipalities other than m
OfOthers(rows, m) == {r \in rows : r.municipality # m}

\* C30: a step of run_single_scraper for municipality m deletes, inserts and
\* updates only records of m: the records of every other municipality are
\* the same after the step as before it.
C30OnlyItsMunicipality ==
    [][\A s \in Sessions :
          (run'[s].kind = "single" /\ (pc[s] # "idle" \/ pc'[s] # "idle"))
          => OfOthers(store', run'[s].municipality) = OfOthers(store, run'[s].municipality)]_vars

(***************************************************************************)
(* scrapers/base.py: fetching and enriching a candidate                    *)
(***************************************************************************)
\* what self.client.get(url) does after the delay: it raises (a network
\* error, a timeout), or returns a response with a status and a text
FetchError(e) == [kind |-> "error", error |-> e, status |-> 0, text |-> <<>>]

Response(status, text) == [kind |-> "response", error |-> "", status |-> status, text |-> text]

\* fetch_page (and fetch_detail_page, which logs and calls it): the page (the
\* text of its soup), or None when client.get or raise_for_status raised
fetch_page(r) ==
    IF r.kind = "error" THEN None
    ELSE IF r.status < 200 \/ r.status >= 300 THEN None
    ELSE Some(r.text)

\* BaseScraper._extract_update_date: the patterns in order, parse_date of
\* group 1 of the first that matches and gives a date
_extract_update_date(text0) ==
    LET kanji == Cat(<<D(4, 4), Nen, D(1, 2), Tsuki, D(1, 2), Nichi>>)
        slash == Cat(<<D(4, 4), Lit(<<"/">>), D(1, 2), Lit(<<"/">>), D(1, 2)>>)
        hyphen == Cat(<<D(4, 4), Lit(<<"-">>), D(1, 2), Lit(<<"-">>), D(1, 2)>>)
        reiwa == Cat(<<Reiwa, D(1, Inf), Nen, D(1, 2), Tsuki, D(1, 2), Nichi>>)
        \* [：:\s] and [日：:\s]
        sep == {"uFF1A", ":"} \cup Spaces
        sep_day == {"u65E5", "uFF1A", ":"} \cup Spaces
        Labelled(label, seps, form) == Cat(<<Lit(label), Star(In(seps)), Grp(1, form)>>)
        \* (?:更新|掲載|登録)
        verb == Words(<<<<"u66F4", "u65B0">>,
        <<"u63B2", "u8F09">>,
        <<"u767B", "u9332">>>>)
        Bracketed(open, form, close) ==
            Cat(<<Lit(open), Grp(1, form), Star(In(Spaces)), verb, Lit(close)>>)
        patterns ==
            <<Labelled(<<"u66F4", "u65B0", "u65E5">>, sep, kanji),
              Labelled(<<"u66F4", "u65B0", "u65E5">>, sep, slash),
              Labelled(<<"u66F4", "u65B0", "u65E5">>, sep, hyphen),
              Labelled(<<"u66F4", "u65B0", "u65E5">>, sep, reiwa),
              Labelled(<<"u6700", "u7D42", "u66F4", "u65B0">>, sep_day, kanji),
              Labelled(<<"u6700", "u7D42", "u66F4", "u65B0">>, sep_day, reiwa),
              Labelled(<<"u63B2", "u8F09", "u65E5">>, sep, kanji),
              Labelled(<<"u63B2", "u8F09", "u65E5">>, sep, reiwa),
              Labelled(<<"u63B2", "u8F09", "u65E5">>, sep, slash),
              Labelled(<<"u767B", "u9332", "u65E5">>, sep, kanji),
              Labelled(<<"u767B", "u9332", "u65E5">>, sep, reiwa),
              Labelled(<<"u516C", "u958B", "u65E5">>, sep, kanji),
              Labelled(<<"u516C", "u958B", "u65E5">>, sep, reiwa),
              Labelled(<<"u4F5C", "u6210", "u65E5">>, sep, kanji),
              Labelled(<<"u4F5C", "u6210", "u65E5">>, sep, reiwa),
              Labelled(<<"u30DA", "u30FC", "u30B8", "u66F4", "u65B0", "u65E5">>, sep, kanji),
              Labelled(<<"u30DA", "u30FC", "u30B8", "u66F4", "u65B0", "u65E5">>, sep, reiwa),
              Bracketed(<<"(">>, kanji, <<")">>),
              Bracketed(<<"uFF08">>, kanji, <<"uFF09">>),
              Bracketed(<<"(">>, reiwa, <<")">>)>>
        Parsed(text, f) == IF f.ok THEN parse_date(Group(text, f, 1)) ELSE None
        Dates(text) == [p \in 1..Len(patterns) |-> Parsed(text, Search(patterns[p], text))]
    IN  FirstSome(Dates(full_to_half(text0)))

\* BaseScraper._is_too_old: date.today() - timedelta(days=months * 30)
_is_too_old(update_date, months, tdy) ==
    IF update_date = None THEN FALSE
    ELSE Ordinal(Val(update_date)) < Ordinal(tdy) - months * 30

\* BaseScraper._is_deadline_passed
_is_deadline_passed(application_end, tdy) ==
    IF application_end = None THEN FALSE
    ELSE DateLt(Val(application_end), tdy)

\* what enrich_bid_from_detail decides before it fetches: "exclude" (return
\* False), "include" (return True, no URL to fetch) or "fetch"
BeforeFetch(bid, tdy) ==
    IF _should_exclude_by_title(bid.title) THEN "exclude"
    ELSE IF _is_old_fiscal_year(bid.title, tdy) THEN "exclude"
    ELSE IF bid.announcement_url = "" THEN "include"
    ELSE "fetch"

\* F of the value v, v computed once
With(v, F(_)) == CHOOSE y \in {F(x) : x \in {v}} : TRUE

\* enrich_bid_from_detail on the page it fetched: the bid as it is left,
\* should_include, and the exception that left the function
OnPage(bid, text, tdy) ==
    LET Expired(parsed) ==
            IF parsed.raised # ""
            THEN [bid |-> parsed.bid, include |-> FALSE, raised |-> parsed.raised]
            ELSE [bid |-> parsed.bid,
                  include |-> ~_is_deadline_passed(parsed.bid.application_end, tdy),
                  raised |-> ""]
        Dated(update_date) ==
            IF IsRaised(update_date)
            THEN [bid |-> bid, include |-> FALSE, raised |-> update_date[1]]
            ELSE IF _is_too_old(update_date, 2, tdy)
            THEN [bid |-> bid, include |-> FALSE, raised |-> ""]
            ELSE With(_parse_detail_page(bid, text, tdy), Expired)
    IN  With(_extract_update_date(text), Dated)

\* an enrichment that needs the page: no page, no candidate
AfterFetchNeedingPage(bid, soup, tdy) ==
    IF soup = None THEN [bid |-> bid, include |-> FALSE, raised |-> ""]
    ELSE OnPage(bid, Val(soup), tdy)

\* enrich_bid_from_detail from the return of fetch_detail_page on: without a
\* page the bid is included as it is
AfterFetch(bid, soup, tdy) ==
    IF soup = None THEN [bid |-> bid, include |-> TRUE, raised |-> ""]
    ELSE OnPage(bid, Val(soup), tdy)

\* process_bid of enrich_bids_parallel on what enrich_bid_from_detail did:
\* the bid when should_include, None when not, the bid when it raised
process_bid(e) ==
    IF e.raised # "" THEN Some(e.bid)
    ELSE IF e.include THEN Some(e.bid) ELSE None

(***************************************************************************)
(* enrich_bids_parallel: the candidates of a listing page, each enriched   *)
(* by its own task under Semaphore(max_concurrent); then filter_bids       *)
(***************************************************************************)
\* max_concurrent of enrich_bids_parallel
max_concurrent == 3

\* 令和5年度広報誌制作業務
TitleStale == <<"u4EE4", "u548C", "5", "u5E74", "u5EA6", "u5E83", "u5831", "u8A8C", "u5236", "u4F5C", "u696D", "u52D9">>

\* the listing page of the municipality: candidates 2 and 4 are rejected by
\* their titles, candidates 5 and 7 have no page, the others have one
ListingPage ==
    <<BidInfo(TitleKoho, SCRAPERS[2], "url1", None, Some(500000), None, None),
      BidInfo(TitleStall, SCRAPERS[2], "url2", None, None, None, None),
      BidInfo(TitleSns, SCRAPERS[2], "url3", None, None, None, None),
      BidInfo(TitleStale, SCRAPERS[2], "url4", None, None, None, None),
      BidInfo(TitleKoho, SCRAPERS[2], "", None, None, None, Some(Date(2025, 1, 31))),
      BidInfo(TitleKoho, SCRAPERS[2], "url6", None, None, None, Some(Date(2025, 1, 31))),
      BidInfo(TitleRoad, SCRAPERS[2], "", None, None, Some(Date(2025, 1, 6)), None)>>

EnrichListings == {<<>>, ListingPage}

\* detail pages: updated long ago; deadline passed; open, with an amount; a
\* date no date() takes
PageOld == <<"u66F4", "u65B0", "u65E5", "uFF1A", "2", "0", "2", "4", "u5E74", "1", "0", "u6708", "1", "u65E5">> \o <<"\n">> \o <<"u63D0", "u51FA", "u671F", "u9650", "uFF1A", "u4EE4", "u548C", "7", "u5E74", "1", "u6708", "2", "4", "u65E5">>

PageExpired == <<"u63B2", "u8F09", "u65E5", "uFF1A", "u4EE4", "u548C", "6", "u5E74", "1", "2", "u6708", "2", "0", "u65E5">> \o <<"\n">> \o <<"u63D0", "u51FA", "u671F", "u9650", "uFF1A", "u4EE4", "u548C", "7", "u5E74", "1", "u6708", "6", "u65E5">>

PageOpen == <<"u6700", "u7D42", "u66F4", "u65B0", "u65E5", "uFF1A", "2", "0", "2", "5", "u5E74", "1", "u6708", "6", "u65E5">> \o <<"\n">> \o <<"u63D0", "u51FA", "u671F", "u9650", "uFF1A", "u4EE4", "u548C", "7", "u5E74", "1", "u6708", "2", "4", "u65E5">> \o <<"\n">> \o <<"u4E0A", "u9650", "u984D", "uFF1A", "1", ",", "2", "0", "0", ",", "0", "0", "0", "u5186">>

PageBroken == <<"u63D0", "u51FA", "u671F", "u9650", "uFF1A", "u4EE4", "u548C", "7", "u5E74", "1", "u6708", "2", "4", "u65E5">> \o <<"\n">> \o <<"u516C", "u544A", "u65E5", "uFF1A", "u4EE4", "u548C", "9", "9", "9", "9", "9", "9", "9", "9", "9", "9", "9", "u5E74", "1", "u6708", "1", "u65E5">>

\* the pages the site may serve for a URL
PagesOf(url) ==
    CASE url = "url1" -> {PageOpen, PageBroken}
      [] url = "url3" -> {PageOld}
      [] url = "url6" -> {PageExpired}
      [] OTHER -> {}

\* the ways the request for a URL may fail: a network error, a timeout, a
\* status that is not 2xx
FailuresOf(url) ==
    CASE url = "url1" -> {FetchError("ConnectError")}
      [] url = "url3" -> {FetchError("ReadTimeout")}
      [] url = "url6" -> {Response(503, <<>>)}
      [] OTHER -> {Response(404, <<>>)}

\* what client.get(url) may do
FetchOutcomes(url) == FailuresOf(url) \cup {Response(200, p) : p \in PagesOf(url)}

NotFetched == [kind |-> "none", error |-> "", status |-> 0, text |-> <<>>]

\* the task of candidate j: where it is, what client.get did, what
\* process_bid returned and the exception it caught
NewTask == [at |-> "created", fetched |-> NotFetched, result |-> None, raised |-> ""]

InitEnrich ==
    /\ today \in RunDays
    /\ store = {}
    /\ pc = [s \in Sessions |-> "idle"]
    /\ run = [s \in Sessions |-> IdleRun]
    /\ txn = [s \in Sessions |-> NoTxn]
    /\ nextId = 1
    /\ now = 1
    /\ high = 0
    /\ calls = <<>>
    /\ \E bids \in EnrichListings :
          probe = [bids |-> bids, tasks |-> [j \in 1..Len(bids) |-> NewTask],
                   semaphore |-> max_concurrent, io |-> {}, responded |-> <<>>,
                   output |-> None, filtered |-> None]

\* a task that sleeps and fetches before it looks at the title
EnterFetchingFirst(j) ==
    /\ j \in 1..Len(probe.tasks)
    /\ probe.tasks[j].at = "created"
    /\ \A k \in 1..(j - 1) : probe.tasks[k].at # "created"
    /\ probe.semaphore > 0
    /\ probe' = IF probe.bids[j].announcement_url # ""
                THEN [probe EXCEPT !.tasks[j].at = "sleeping", !.semaphore = @ - 1,
                                   !.io = @ \cup {<<"sleep", j>>}]
                ELSE [probe EXCEPT !.tasks[j].at = "done",
                                   !.tasks[j].result =
                                       IF BeforeFetch(probe.bids[j], today) = "include"
                                       THEN Some(probe.bids[j]) ELSE None]
    /\ UNCHANGED <<today, store, pc, run, txn, nextId, now, high, calls>>

\* process_bid of candidate j, from 'async with semaphore' (the waiters of an
\* asyncio.Semaphore are woken first come first served) to its first await:
\* the title checks and the URL check return at once, else fetch_page starts
\* with asyncio.sleep(self.delay)
Enter(j) ==
    /\ j \in 1..Len(probe.tasks)
    /\ probe.tasks[j].at = "created"
    /\ \A k \in 1..(j - 1) : probe.tasks[k].at # "created"
    /\ probe.semaphore > 0
    /\ LET Entered(verdict) ==
               IF verdict = "fetch"
               THEN [probe EXCEPT !.tasks[j].at = "sleeping", !.semaphore = @ - 1,
                                  !.io = @ \cup {<<"sleep", j>>}]
               ELSE [probe EXCEPT !.tasks[j].at = "done",
                                  !.tasks[j].result =
                                      IF verdict = "include" THEN Some(probe.bids[j])
                                      ELSE None]
       IN  probe' = Entered(BeforeFetch(probe.bids[j], today))
    /\ UNCHANGED <<today, store, pc, run, txn, nextId, now, high, calls>>

\* fetch_page: the delay is over, self.client.get(url) is sent
Wake(j) ==
    /\ j \in 1..Len(probe.tasks)
    /\ probe.tasks[j].at = "sleeping"
    /\ probe' = [probe EXCEPT !.tasks[j].at = "getting", !.io = @ \cup {<<"get", j>>}]
    /\ UNCHANGED <<today, store, pc, run, txn, nextId, now, high, calls>>

\* the request of candidate j ends with r: fetch_page, the rest of
\* enrich_bid_from_detail, the return of process_bid and the release of the
\* semaphore
Respond(j) ==
    /\ j \in 1..Len(probe.tasks)
    /\ probe.tasks[j].at = "getting"
    /\ \E r \in FetchOutcomes(probe.bids[j].announcement_url) :
          \E e \in {AfterFetch(probe.bids[j], fetch_page(r), today)} :
              probe' = [probe EXCEPT !.tasks[j] = [at |-> "done", fetched |-> r,
                                                  result |-> process_bid(e),
                                                  raised |-> e.raised],
                                    !.semaphore = @ + 1,
                                    !.responded = Append(@, j)]
    /\ UNCHANGED <<today, store, pc, run, txn, nextId, now, high, calls>>

\* the results in the order in which the tasks ended: those that did not
\* fetch, then the fetchers as their requests ended
GatheredAsCompleted(tasks, responded) ==
    LET Ended(order) == SelectSeq(order, LAMBDA j : tasks[j].result # None)
        Results(order) == [k \in 1..Len(order) |-> Val(tasks[order[k]].result)]
    IN  Results(Ended(SelectSeq([j \in 1..Len(tasks) |-> j],
                                LAMBDA j : tasks[j].fetched.kind = "none")))
            \o Results(Ended(responded))

\* results = await asyncio.gather(*tasks), in the order of the tasks whatever
\* the order in which they ended, and the results that are not None
Gathered(tasks, responded) ==
    LET Results(kept) == [k \in 1..Len(kept) |-> Val(kept[k].result)]
    IN  Results(SelectSeq(tasks, LAMBDA t : t.result # None))

\* enrich_bids_parallel returns: [] for no bids, else the gathered results
Return ==
    /\ probe.output = None
    /\ \A j \in 1..Len(probe.tasks) : probe.tasks[j].at = "done"
    /\ probe' = [probe EXCEPT !.output = Some(Gathered(probe.tasks, probe.responded))]
    /\ UNCHANGED <<today, store, pc, run, txn, nextId, now, high, calls>>

\* filter_bids on what the scraper returned
FilterEnriched ==
    /\ probe.output # None
    /\ probe.filtered = None
    /\ probe' = [probe EXCEPT !.filtered = Some(filter_bids(Val(probe.output), today))]
    /\ UNCHANGED <<today, store, pc, run, txn, nextId, now, high, calls>>

NextEnrich ==
    \/ \E j \in 1..Len(ListingPage) : Enter(j)
    \/ \E j \in 1..Len(ListingPage) : Wake(j)
    \/ \E j \in 1..Len(ListingPage) : Respond(j)
    \/ Return
    \/ FilterEnriched

SpecEnrich == InitEnrich /\ [][NextEnrich]_vars

\* the tasks inside 'async with semaphore'
Inside == {j \in 1..Len(probe.tasks) : probe.tasks[j].at \in {"sleeping", "getting"}}

EnrichSane ==
    /\ probe.semaphore >= 0
    /\ Cardinality(Inside) + probe.semaphore = max_concurrent

(***************************************************************************)
(* Properties of enrichment                                                *)
(***************************************************************************)
\* whether client.get of the task ended without a page: an exception, or a
\* status that is not 2xx
FetchFailed(t) == t.fetched.kind # "none" /\ fetch_page(t.fetched) = None

\* the candidate of a bid: its title and its URL (no two of a listing agree
\* in both)
Candidate(bid) == <<bid.title, bid.announcement_url>>

\* C27: fetch_page gives no page and does not raise when the request fails
\* (network error, timeout, status that is not 2xx); a candidate whose fetch
\* failed is kept with every field as the list page gave it; a candidate
\* whose enrichment raised is kept; and no candidate is dropped for want of a
\* page: a dropped candidate was rejected by its title or by its page.
C27MissingPageKeeps ==
    \A j \in 1..Len(probe.tasks) :
        probe.tasks[j].at = "done"
        => /\ FetchFailed(probe.tasks[j])
                => /\ probe.tasks[j].raised = ""
                   /\ probe.tasks[j].result = Some(probe.bids[j])
           /\ probe.tasks[j].raised # ""
                => /\ probe.tasks[j].result # None
                   /\ Candidate(Val(probe.tasks[j].result)) = Candidate(probe.bids[j])
           /\ probe.tasks[j].result = None
                => \/ BeforeFetch(probe.bids[j], today) = "exclude"
                   \/ fetch_page(probe.tasks[j].fetched) # None

\* the enrichment returned after a network error, a timeout and a 503: the
\* three candidates are in the result as the listing had them
C27Witness ==
    /\ probe.output # None
    /\ Len(probe.tasks) >= 6
    /\ probe.tasks[1].fetched = FetchError("ConnectError")
    /\ probe.tasks[3].fetched = FetchError("ReadTimeout")
    /\ probe.tasks[6].fetched = Response(503, <<>>)
    /\ \A j \in {1, 3, 6} :
          \E k \in 1..Len(Val(probe.output)) : Val(probe.output)[k] = probe.bids[j]

\* the page of candidate 1 made _parse_detail_page raise after it had set the
\* deadline; the candidate is in the result
C27WitnessRaised ==
    /\ probe.output # None
    /\ Len(probe.tasks) >= 1
    /\ probe.tasks[1].raised = "OverflowError"
    /\ \E k \in 1..Len(Val(probe.output)) :
          /\ Candidate(Val(probe.output)[k]) = Candidate(probe.bids[1])
          /\ Val(probe.output)[k].application_end = Some(Date(2025, 1, 24))

\* C28: for a candidate whose title has an exclusion keyword or names a past
\* fiscal year, the task never sleeps and never sends a request, and the
\* candidate is rejected.
C28TitleChecksFirst ==
    \A j \in 1..Len(probe.tasks) :
        (\/ _should_exclude_by_title(probe.bids[j].title)
         \/ _is_old_fiscal_year(probe.bids[j].title, today))
        => /\ <<"sleep", j>> \notin probe.io
           /\ <<"get", j>> \notin probe.io
           /\ probe.tasks[j].at \in {"created", "done"}
           /\ probe.tasks[j].fetched = NotFetched
           /\ probe.tasks[j].result = None

\* candidates 2 (exclusion keyword) and 4 (past fiscal year), both with a
\* URL, are rejected without I/O while candidate 1 was fetched
C28Witness ==
    /\ Len(probe.tasks) >= 4
    /\ probe.bids[2].announcement_url # "" /\ probe.bids[4].announcement_url # ""
    /\ _should_exclude_by_title(probe.bids[2].title)
    /\ ~_should_exclude_by_title(probe.bids[4].title)
    /\ probe.tasks[2].at = "done" /\ probe.tasks[4].at = "done"
    /\ probe.output # None
    /\ \A k \in 1..Len(Val(probe.output)) :
          Candidate(Val(probe.output)[k]) \notin {Candidate(probe.bids[2]), Candidate(probe.bids[4])}
    /\ <<"get", 1>> \in probe.io

\* whether the candidates of a are candidates of b in the order of b, each
\* at most once
InOrderOf(a, b) ==
    /\ \A i \in 1..Len(a) : \E k \in 1..Len(b) : Candidate(b[k]) = Candidate(a[i])
    /\ \A i, k \in 1..Len(a) :
          i < k => \E p, q \in 1..Len(b) :
                      /\ p < q
                      /\ Candidate(b[p]) = Candidate(a[i])
                      /\ Candidate(b[q]) = Candidate(a[k])

\* C29: what enrich_bids_parallel returns is a subsequence of the listing,
\* and what filter_bids returns is a subsequence of that, whatever the order
\* in which the requests ended: nothing twice, nothing out of order.
C29OrderKept ==
    /\ probe.output # None => InOrderOf(Val(probe.output), probe.bids)
    /\ probe.filtered # None
          => /\ InOrderOf(Val(probe.filtered), Val(probe.output))
             /\ InOrderOf(Val(probe.filtered), probe.bids)

\* the requests ended in the reverse of the listing's order; five candidates
\* survive enrichment and the filter keeps at least three of them
C29Witness ==
    /\ Len(probe.tasks) >= 6
    /\ probe.responded = <<6, 3, 1>>
    /\ probe.filtered # None
    /\ Len(Val(probe.output)) = 5
    /\ Len(Val(probe.filtered)) >= 3
    /\ Len(Val(probe.filtered)) < Len(Val(probe.output))

\* ---------------------------------------------------------------------
\* services/scraper_service.py: run_all_scrapers, the scrapes side by side
\* ---------------------------------------------------------------------

\* asyncio.Semaphore(5) of run_all_scrapers
MaxScrapes == 5

\* the head of the registry: one scraper more than the semaphore admits
GatherScrapers == <<"Fukuoka-ken", "Fukuoka-shi", "Kitakyushu-shi", "Kurume-shi", "Tagawa-shi", "Munakata-shi">>

\* what the listing page of a scraper whose scrape() ends in
\* enrich_bids_parallel holds: for each candidate, whether its enrichment
\* fetches the detail page or returns before (title check, no URL);
\* the other scrapers return without enrich_bids_parallel
ListingOf(i) ==
    CASE i = 2 -> <<"fetch", "fetch", "fetch", "fetch">>
      [] i = 5 -> <<"skip", "fetch">>
      [] OTHER -> <<>>

Enriching == {2, 5}

\* the task of _scrape_municipality for scraper i: where it is, whether
\* scrape() raised, and inside enrich_bids_parallel its semaphore and
\* where each process_bid is
NewScrape == [at |-> "created", error |-> FALSE, sem |-> max_concurrent, inner |-> <<>>]

InitGather ==
    /\ today = CHOOSE d \in RunDays : TRUE
    /\ store = {}
    /\ pc = [s \in Sessions |-> "idle"]
    /\ run = [s \in Sessions |-> IdleRun]
    /\ txn = [s \in Sessions |-> NoTxn]
    /\ nextId = 1
    /\ now = 1
    /\ high = 0
    /\ calls = <<>>
    /\ probe = [tasks |-> [i \in 1..Len(GatherScrapers) |-> NewScrape],
                semaphore |-> MaxScrapes, state |-> "gathering", idx |-> 0,
                errors |-> <<>>, municipalities |-> {}]

\* a task that enters without looking at the semaphore
AcquireAnyway(i) ==
    /\ probe.state = "gathering"
    /\ probe.tasks[i].at = "created"
    /\ \A k \in 1..(i - 1) : probe.tasks[k].at # "created"
    /\ probe' = [probe EXCEPT !.tasks[i].at = "scraping", !.semaphore = @ - 1]
    /\ UNCHANGED <<today, store, pc, run, txn, nextId, now, high, calls>>

\* _scrape_municipality, 'async with semaphore' (the tasks of the gather
\* start in the order of SCRAPERS, the waiters of the semaphore are woken
\* first come first served), to 'await scraper.scrape()'
Acquire(i) ==
    /\ probe.state = "gathering"
    /\ probe.tasks[i].at = "created"
    /\ \A k \in 1..(i - 1) : probe.tasks[k].at # "created"
    /\ probe.semaphore > 0
    /\ probe' = [probe EXCEPT !.tasks[i].at = "scraping", !.semaphore = @ - 1]
    /\ UNCHANGED <<today, store, pc, run, txn, nextId, now, high, calls>>

\* scrape() raises: 'except Exception' builds the error result, 'finally'
\* awaits scraper.close()
ScrapeRaises(i) ==
    /\ probe.tasks[i].at = "scraping"
    /\ probe' = [probe EXCEPT !.tasks[i].at = "closing", !.tasks[i].error = TRUE]
    /\ UNCHANGED <<today, store, pc, run, txn, nextId, now, high, calls>>

\* scrape() of a scraper without enrichment returns, filter_bids, 'finally'
\* awaits scraper.close()
ScrapeReturns(i) ==
    /\ probe.tasks[i].at = "scraping"
    /\ i \notin Enriching
    /\ probe' = [probe EXCEPT !.tasks[i].at = "closing"]
    /\ UNCHANGED <<today, store, pc, run, txn, nextId, now, high, calls>>

\* scrape() has its listing and calls enrich_bids_parallel: a new
\* Semaphore(max_concurrent) and one process_bid for each candidate
EnrichStarts(i) ==
    /\ probe.tasks[i].at = "scraping"
    /\ i \in Enriching
    /\ probe' = [probe EXCEPT !.tasks[i].at = "enriching",
                              !.tasks[i].sem = max_concurrent,
                              !.tasks[i].inner = [j \in 1..Len(ListingOf(i)) |-> "created"]]
    /\ UNCHANGED <<today, store, pc, run, txn, nextId, now, high, calls>>

\* process_bid of candidate j of scraper i enters its semaphore: it
\* returns at once or goes on to fetch the detail page
EnrichEnter(i, j) ==
    /\ probe.tasks[i].at = "enriching"
    /\ j \in 1..Len(probe.tasks[i].inner)
    /\ probe.tasks[i].inner[j] = "created"
    /\ \A k \in 1..(j - 1) : probe.tasks[i].inner[k] # "created"
    /\ probe.tasks[i].sem > 0
    /\ probe' = IF ListingOf(i)[j] = "fetch"
                THEN [probe EXCEPT !.tasks[i].inner[j] = "fetching", !.tasks[i].sem = @ - 1]
                ELSE [probe EXCEPT !.tasks[i].inner[j] = "done"]
    /\ UNCHANGED <<today, store, pc, run, txn, nextId, now, high, calls>>

\* the fetch of candidate j ends (with a page, with None or with an
\* exception that process_bid catches) and its semaphore is released
EnrichRespond(i, j) ==
    /\ probe.tasks[i].at = "enriching"
    /\ j \in 1..Len(probe.tasks[i].inner)
    /\ probe.tasks[i].inner[j] = "fetching"
    /\ probe' = [probe EXCEPT !.tasks[i].inner[j] = "done", !.tasks[i].sem = @ + 1]
    /\ UNCHANGED <<today, store, pc, run, txn, nextId, now, high, calls>>

\* the gather of enrich_bids_parallel returns, scrape() returns,
\* filter_bids, 'finally' awaits scraper.close()
EnrichReturns(i) ==
    /\ probe.tasks[i].at = "enriching"
    /\ \A j \in 1..Len(probe.tasks[i].inner) : probe.tasks[i].inner[j] = "done"
    /\ probe' = [probe EXCEPT !.tasks[i].at = "closing"]
    /\ UNCHANGED <<today, store, pc, run, txn, nextId, now, high, calls>>

\* scraper.close() returns, the result is returned and 'async with'
\* releases the semaphore
CloseScraper(i) ==
    /\ probe.tasks[i].at = "closing"
    /\ probe' = [probe EXCEPT !.tasks[i].at = "done", !.semaphore = @ + 1]
    /\ UNCHANGED <<today, store, pc, run, txn, nextId, now, high, calls>>

\* asyncio.gather returns when every task has returned
GatherReturns ==
    /\ probe.state = "gathering"
    /\ \A i \in 1..Len(probe.tasks) : probe.tasks[i].at = "done"
    /\ probe' = [probe EXCEPT !.state = "processing", !.idx = 1]
    /\ UNCHANGED <<today, store, pc, run, txn, nextId, now, high, calls>>

\* the loop over scrape_results: a result with an error goes to
\* results["errors"]
RecordError ==
    /\ probe.state = "processing"
    /\ probe.idx <= Len(probe.tasks)
    /\ probe.tasks[probe.idx].error
    /\ probe' = [probe EXCEPT !.errors = Append(@, GatherScrapers[probe.idx]),
                              !.idx = @ + 1]
    /\ UNCHANGED <<today, store, pc, run, txn, nextId, now, high, calls>>

\* the loop over scrape_results: save_bids returns and the municipality
\* gets its entry
RecordSaved ==
    /\ probe.state = "processing"
    /\ probe.idx <= Len(probe.tasks)
    /\ ~probe.tasks[probe.idx].error
    /\ probe' = [probe EXCEPT !.municipalities = @ \cup {GatherScrapers[probe.idx]},
                              !.idx = @ + 1]
    /\ UNCHANGED <<today, store, pc, run, txn, nextId, now, high, calls>>

\* the loop over scrape_results: save_bids raises and run_all_scrapers
\* with it
SaveRaises ==
    /\ probe.state = "processing"
    /\ probe.idx <= Len(probe.tasks)
    /\ ~probe.tasks[probe.idx].error
    /\ probe' = [probe EXCEPT !.state = "raised"]
    /\ UNCHANGED <<today, store, pc, run, txn, nextId, now, high, calls>>

\* run_all_scrapers returns results
ReturnResults ==
    /\ probe.state = "processing"
    /\ probe.idx > Len(probe.tasks)
    /\ probe' = [probe EXCEPT !.state = "returned"]
    /\ UNCHANGED <<today, store, pc, run, txn, nextId, now, high, calls>>

NextGather ==
    \/ \E i \in 1..Len(GatherScrapers) : Acquire(i)
    \/ \E i \in 1..Len(GatherScrapers) : ScrapeRaises(i)
    \/ \E i \in 1..Len(GatherScrapers) : ScrapeReturns(i)
    \/ \E i \in 1..Len(GatherScrapers) : EnrichStarts(i)
    \/ \E i \in 1..Len(GatherScrapers) : \E j \in 1..Len(ListingOf(i)) : EnrichEnter(i, j)
    \/ \E i \in 1..Len(GatherScrapers) : \E j \in 1..Len(ListingOf(i)) : EnrichRespond(i, j)
    \/ \E i \in 1..Len(GatherScrapers) : EnrichReturns(i)
    \/ \E i \in 1..Len(GatherScrapers) : CloseScraper(i)
    \/ GatherReturns
    \/ RecordError
    \/ RecordSaved
    \/ SaveRaises
    \/ ReturnResults

SpecGather == InitGather /\ [][NextGather]_vars

\* the event loop runs a task that can run, and every await of the run
\* ends: a request after the timeout of the httpx client at the latest,
\* the delay after self.delay seconds, a database call with its answer
FairGather == SpecGather /\ WF_vars(NextGather)

\* the scrapes between 'async with semaphore' and its release
InProgress == {i \in 1..Len(probe.tasks) : probe.tasks[i].at \in {"scraping", "enriching", "closing"}}

\* the enrichments of scraper i between 'async with semaphore' and its release
Fetching(i) == {j \in 1..Len(probe.tasks[i].inner) : probe.tasks[i].inner[j] = "fetching"}

Scraped(i) == probe.tasks[i].at = "done"

Ended == probe.state \in {"returned", "raised"}

\* C26: at every moment of a full run at most 5 scrapes are in progress
\* and within one enrich_bids_parallel at most 3 enrichments, whatever the
\* order in which tasks end; eventually every scraper of the registry has
\* been scraped or has its error result and the run has ended, and a run
\* that returns has an entry or an error for every scraper.
C26BoundedAndEnds ==
    /\ [](/\ Cardinality(InProgress) <= 5
          /\ \A i \in 1..Len(probe.tasks) : Cardinality(Fetching(i)) <= 3
          /\ probe.state = "returned" =>
                \A i \in 1..Len(probe.tasks) :
                    IF probe.tasks[i].error
                    THEN \E k \in 1..Len(probe.errors) : probe.errors[k] = GatherScrapers[i]
                    ELSE GatherScrapers[i] \in probe.municipalities)
    /\ <>[](Ended /\ \A i \in 1..Len(probe.tasks) : Scraped(i))

\* five scrapes in progress and the sixth waiting, three enrichments of
\* Fukuoka-shi in progress and the fourth waiting, a scraper that failed
C26Witness ==
    /\ probe.state = "gathering"
    /\ Cardinality(InProgress) = 5
    /\ probe.tasks[6].at = "created"
    /\ probe.tasks[2].at = "enriching"
    /\ Cardinality(Fetching(2)) = 3
    /\ probe.tasks[2].inner[4] = "created"
    /\ probe.tasks[1].error

\* the run has ended with every scraper recorded, one of them as failed
C26WitnessEnded ==
    /\ probe.state = "returned"
    /\ Len(probe.errors) >= 1
    /\ Cardinality(probe.municipalities) >= 1
    /\ Len(probe.errors) + Cardinality(probe.municipalities) = Len(GatherScrapers)

====
